---- MODULE Spec2Model ----
(***************************************************************************)
(* Model of the airport lookup engine: the dataset builder of              *)
(* extended_data.py (download_airport_data, process_airport_data,         *)
(* create_search_indexes) and the                                          *)
(* search chain of smart_search.py (AirportSearch).                        *)
(*                                                                         *)
(* A Python str is a sequence of one-character strings.  A Python dict is  *)
(* a sequence of [k, v] entries in insertion order (dicts iterate in       *)
(* insertion order; assigning to an existing key keeps its position).      *)
(* A csv row is a record of the texts of its fields, with n the number of  *)
(* fields of the row; a coordinate is a whole number of millionths of a    *)
(* degree.                                                                 *)
(***************************************************************************)
EXTENDS Integers, Sequences, FiniteSets, TLC

VARIABLES
    airports,       \* AirportSearch.airports: the record store, in load order
    iata_index,     \* AirportSearch.iata_index: dict iata -> record
    icao_index,     \* AirportSearch.icao_index: dict icao -> record
    city_index,     \* AirportSearch.city_index: dict "city, country" -> list of records
    country_index,  \* AirportSearch.country_index: dict country -> list of records
    pc,             \* "idle", or "called" while an operation is running
    op,             \* the last operation called on the engine
    query,          \* its argument, as the caller passed it
    results,        \* the list it returned
    via,            \* the branch of the code the returned list came from
    calls,          \* the strategies smart_search invoked, in order, each with its result
    printed,        \* the suggestion codes search_by_code printed ("Did you mean")
    dataset,        \* data/airports_raw.dat: whether it exists, and its csv rows
    files,          \* data/airport_data.json and data/*_index.json, once written
    radius_km,      \* the radius of the last nearby search, in km
    ref_airport,    \* its reference airport: a list of one record, or empty
    menu,           \* the loop of final_system.py whose prompt is waiting, or "none"
    shown,          \* the menus and banners it has displayed, in order
    typed,          \* what the user typed at the prompts of the last pass of a loop
    said,           \* what that pass printed last
    exported        \* the files export_country_data has written: name -> content

vars == <<airports, iata_index, icao_index, city_index, country_index,
          pc, op, query, results, via, calls, printed, dataset, files,
          radius_km, ref_airport, menu, shown, typed, said, exported>>

store == <<airports, iata_index, icao_index, city_index, country_index>>

geo == <<radius_km, ref_airport>>

shell == <<menu, shown, typed, said, exported>>

----------------------------------------------------------------------------
(* Characters and the str methods the code uses *)

Uppers == <<"A","B","C","D","E","F","G","H","I","J","K","L","M",
            "N","O","P","Q","R","S","T","U","V","W","X","Y","Z","Ã">>
Lowers == <<"a","b","c","d","e","f","g","h","i","j","k","l","m",
            "n","o","p","q","r","s","t","u","v","w","x","y","z","ã">>

IndexOf(seq, c) == CHOOSE i \in 1..Len(seq) : seq[i] = c
IsUpperChar(c) == \E i \in 1..Len(Uppers) : Uppers[i] = c
IsLowerChar(c) == \E i \in 1..Len(Lowers) : Lowers[i] = c
IsAlphaChar(c) == IsUpperChar(c) \/ IsLowerChar(c)
IsSpaceChar(c) == c = " "
Digits == <<"0","1","2","3","4","5","6","7","8","9">>
IsDigitChar(c) == \E i \in 1..Len(Digits) : Digits[i] = c

\* ord(c): the code point, which is what str comparison compares
Ord(c) ==
    IF c = "Ã" THEN 195
    ELSE IF c = "ã" THEN 227
    ELSE IF IsUpperChar(c) THEN 64 + IndexOf(Uppers, c)
    ELSE IF IsLowerChar(c) THEN 96 + IndexOf(Lowers, c)
    ELSE IF c = " " THEN 32
    ELSE IF c = "," THEN 44
    ELSE IF IsDigitChar(c) THEN 47 + IndexOf(Digits, c)
    ELSE IF c = "-" THEN 45
    ELSE IF c = "." THEN 46
    ELSE IF c = "\"" THEN 34
    ELSE 0

UpperChar(c) == IF IsLowerChar(c) THEN Uppers[IndexOf(Lowers, c)] ELSE c
LowerChar(c) == IF IsUpperChar(c) THEN Lowers[IndexOf(Uppers, c)] ELSE c

\* str.upper(), str.lower()
RECURSIVE upper(_)
upper(s) == IF s = <<>> THEN <<>> ELSE <<UpperChar(Head(s))>> \o upper(Tail(s))
RECURSIVE lower(_)
lower(s) == IF s = <<>> THEN <<>> ELSE <<LowerChar(Head(s))>> \o lower(Tail(s))

\* str.strip(): drops leading and trailing whitespace
RECURSIVE lstrip(_)
lstrip(s) == IF s # <<>> /\ IsSpaceChar(Head(s)) THEN lstrip(Tail(s)) ELSE s
RECURSIVE rstrip(_)
rstrip(s) ==
    IF s # <<>> /\ IsSpaceChar(s[Len(s)]) THEN rstrip(SubSeq(s, 1, Len(s) - 1)) ELSE s
strip(s) == rstrip(lstrip(s))

\* str.isalpha(): at least one character and every character a letter
isalpha(s) == s # <<>> /\ \A i \in 1..Len(s) : IsAlphaChar(s[i])

\* str.isdigit(): at least one character and every character a digit
isdigit(s) == s # <<>> /\ \A i \in 1..Len(s) : IsDigitChar(s[i])

\* int(s) for a str of digits, with or without a sign
RECURSIVE int(_)
int(s) ==
    IF s = <<>> THEN 0
    ELSE IF Head(s) = "-" THEN 0 - int(Tail(s))
    ELSE 10 * int(SubSeq(s, 1, Len(s) - 1)) + (IndexOf(Digits, s[Len(s)]) - 1)

\* float(s): the texts of decimal numbers, with or without a sign and with or
\* without a fraction, are the ones the rows carry; any other text of the rows
\* makes float raise ValueError
float_raises(s) ==
    LET u == IF s # <<>> /\ Head(s) = "-" THEN Tail(s) ELSE s
    IN  ~ \/ isdigit(u)
          \/ \E i \in 1..Len(u) :
                 /\ u[i] = "."
                 /\ Len(u) > 1
                 /\ i > 1 => isdigit(SubSeq(u, 1, i - 1))
                 /\ i < Len(u) => isdigit(SubSeq(u, i + 1, Len(u)))

\* the value of float(s) in millionths, the fraction read to its sixth digit
float(s) ==
    LET Millionths == <<100000, 10000, 1000, 100, 10, 1>>
        u == IF Head(s) = "-" THEN Tail(s) ELSE s
        dot == IF \E i \in 1..Len(u) : u[i] = "."
               THEN CHOOSE i \in 1..Len(u) : u[i] = "." ELSE Len(u) + 1
        fraction == SubSeq(u, dot + 1, IF Len(u) < dot + 6 THEN Len(u) ELSE dot + 6)
        value == 1000000 * int(SubSeq(u, 1, dot - 1))
                 + (IF fraction = <<>> THEN 0
                    ELSE int(fraction) * Millionths[Len(fraction)])
    IN  IF Head(s) = "-" THEN 0 - value ELSE value

\* str.strip('"'): drops leading and trailing double quotes
RECURSIVE lstrip_quotes(_)
lstrip_quotes(s) == IF s # <<>> /\ Head(s) = "\"" THEN lstrip_quotes(Tail(s)) ELSE s
RECURSIVE rstrip_quotes(_)
rstrip_quotes(s) ==
    IF s # <<>> /\ s[Len(s)] = "\"" THEN rstrip_quotes(SubSeq(s, 1, Len(s) - 1)) ELSE s
strip_quotes(s) == rstrip_quotes(lstrip_quotes(s))

\* x in y, for two str
Contains(y, x) ==
    \E i \in 0..(Len(y) - Len(x)) : SubSeq(y, i + 1, i + Len(x)) = x

\* x < y, for two str: lexicographic on code points
RECURSIVE StrLess(_, _)
StrLess(x, y) ==
    IF y = <<>> THEN FALSE
    ELSE IF x = <<>> THEN TRUE
    ELSE IF Ord(Head(x)) # Ord(Head(y)) THEN Ord(Head(x)) < Ord(Head(y))
    ELSE StrLess(Tail(x), Tail(y))

----------------------------------------------------------------------------
(* dict *)

DictHas(d, key) == \E i \in 1..Len(d) : d[i].k = key
DictGet(d, key) == d[CHOOSE i \in 1..Len(d) : d[i].k = key].v
RECURSIVE DictKeys(_)
DictKeys(d) == IF d = <<>> THEN <<>> ELSE <<Head(d).k>> \o DictKeys(Tail(d))
\* d[key] = val
RECURSIVE DictSet(_, _, _)
DictSet(d, key, val) ==
    IF d = <<>> THEN <<[k |-> key, v |-> val]>>
    ELSE IF Head(d).k = key THEN <<[k |-> key, v |-> val]>> \o Tail(d)
    ELSE <<Head(d)>> \o DictSet(Tail(d), key, val)

----------------------------------------------------------------------------
(* difflib.get_close_matches, as the three fallbacks call it.              *)
(* SequenceMatcher(a = candidate, b = word) with no junk (autojunk needs   *)
(* 200 elements): ratio() = 2*M/T, M the total size of the matching blocks *)
(* and T = len(a) + len(b).  real_quick_ratio() and quick_ratio() are      *)
(* upper bounds of ratio(), so a candidate passes iff ratio() >= cutoff.   *)

\* the length of the common run of a from i and b from j, inside [.., ahi) x [.., bhi)
RECURSIVE RunLen(_, _, _, _, _, _)
RunLen(a, b, i, j, ahi, bhi) ==
    IF i < ahi /\ j < bhi /\ a[i] = b[j]
    THEN 1 + RunLen(a, b, i + 1, j + 1, ahi, bhi)
    ELSE 0

MinOf(S) == CHOOSE x \in S : \A y \in S : x <= y
MaxOf(S) == CHOOSE x \in S : \A y \in S : y <= x

\* SequenceMatcher.find_longest_match: the longest block, the one starting
\* earliest in a, and of those the one starting earliest in b.  runs[<<i, j>>] is
\* the length of the common run from a[i] and b[j]; size is the longest
EarliestBlock(runs, size, i) ==
    [i |-> i,
     j |-> MinOf({p[2] : p \in {r \in DOMAIN runs : r[1] = i /\ runs[r] = size}}),
     size |-> size]
LongestBlock(runs, size, alo, blo) ==
    IF size = 0 THEN [i |-> alo, j |-> blo, size |-> 0]
    ELSE EarliestBlock(runs, size, MinOf({p[1] : p \in {r \in DOMAIN runs : runs[r] = size}}))
BlockOfRuns(runs, alo, blo) ==
    LongestBlock(runs,
                 IF DOMAIN runs = {} THEN 0 ELSE MaxOf({runs[p] : p \in DOMAIN runs}),
                 alo, blo)
find_longest_match(a, b, alo, ahi, blo, bhi) ==
    BlockOfRuns([p \in (alo..(ahi - 1)) \X (blo..(bhi - 1)) |->
                     RunLen(a, b, p[1], p[2], ahi, bhi)],
                alo, blo)

\* SequenceMatcher.get_matching_blocks, summed: the match m, then what lies to
\* its left in both strings, then what lies to its right in both
RECURSIVE MatchCount(_, _, _, _, _, _)
RECURSIVE BlocksAround(_, _, _, _, _, _, _)
BlocksAround(a, b, alo, ahi, blo, bhi, m) ==
    IF m.size = 0 THEN 0
    ELSE m.size
         + (IF alo < m.i /\ blo < m.j
            THEN MatchCount(a, b, alo, m.i, blo, m.j) ELSE 0)
         + (IF m.i + m.size < ahi /\ m.j + m.size < bhi
            THEN MatchCount(a, b, m.i + m.size, ahi, m.j + m.size, bhi) ELSE 0)
MatchCount(a, b, alo, ahi, blo, bhi) ==
    BlocksAround(a, b, alo, ahi, blo, bhi, find_longest_match(a, b, alo, ahi, blo, bhi))

\* ratio() as the fraction [num, den]; difflib returns 1.0 when both strings are empty
ratio(a, b) ==
    IF Len(a) + Len(b) = 0 THEN [num |-> 1, den |-> 1]
    ELSE [num |-> 2 * MatchCount(a, b, 1, Len(a) + 1, 1, Len(b) + 1),
          den |-> Len(a) + Len(b)]

\* cutoff=0.6 of every get_close_matches call, as the fraction CutoffNum/CutoffDen
CutoffNum == 6
CutoffDen == 10
\* n= of the get_close_matches calls
CodeSuggestions == 5
CityMatches == 10
CountryMatches == 3
CountryListingMatches == 1

RatioLess(r, s) == r.num * s.den < s.num * r.den
AtCutoff(r) == r.num * CutoffDen >= CutoffNum * r.den

\* result.append((s.ratio(), x)) for every x whose ratio reaches the cutoff
ScoredIfAtCutoff(x, r) == IF AtCutoff(r) THEN <<[score |-> r, x |-> x]>> ELSE <<>>
RECURSIVE Scored(_, _)
Scored(word, xs) ==
    IF xs = <<>> THEN <<>>
    ELSE ScoredIfAtCutoff(Head(xs), ratio(Head(xs), word)) \o Scored(word, Tail(xs))

\* an order of the tuples that puts the smaller string of two equal scores higher
ScoredLess_smaller_string_higher(p, q) ==
    \/ RatioLess(p.score, q.score)
    \/ /\ ~RatioLess(q.score, p.score)
       /\ StrLess(q.x, p.x)

\* (score, x) < (score', x'): the order of the tuples heapq.nlargest compares
ScoredLess(p, q) ==
    \/ RatioLess(p.score, q.score)
    \/ /\ ~RatioLess(q.score, p.score)
       /\ StrLess(p.x, q.x)

RemoveAt(s, i) == SubSeq(s, 1, i - 1) \o SubSeq(s, i + 1, Len(s))

\* heapq.nlargest(n, result), then "x for score, x in result": largest first
Largest(scored) ==
    CHOOSE i \in 1..Len(scored) : \A j \in 1..Len(scored) : ~ScoredLess(scored[i], scored[j])
RECURSIVE nlargest(_, _)
RECURSIVE TakeLargest(_, _, _)
TakeLargest(n, scored, i) == <<scored[i].x>> \o nlargest(n - 1, RemoveAt(scored, i))
nlargest(n, scored) ==
    IF n = 0 \/ scored = <<>> THEN <<>> ELSE TakeLargest(n, scored, Largest(scored))

get_close_matches(word, possibilities, n) == nlargest(n, Scored(word, possibilities))

-----
(* extended_data.py: the builder whose files AirportSearch.load_data reads *)

\* lines 66-79: the dict made of a row (elevation, timezone, type and source are
\* carried along and read by no lookup; they are left out)
airport_of(row) ==
    [id |-> IF isdigit(row.id) THEN int(row.id) ELSE 0,
     name |-> strip_quotes(row.name),
     city |-> strip_quotes(row.city),
     country |-> strip_quotes(row.country),
     iata |-> strip_quotes(row.iata),
     icao |-> strip_quotes(row.icao),
     latitude |-> IF row.latitude # <<>> THEN float(row.latitude) ELSE 0,
     longitude |-> IF row.longitude # <<>> THEN float(row.longitude) ELSE 0]

\* a row of at least 14 fields whose latitude or longitude float() rejects
Raises(row) ==
    /\ row.n >= 14
    /\ \/ row.latitude # <<>> /\ float_raises(row.latitude)
       \/ row.longitude # <<>> /\ float_raises(row.longitude)

\* lines 83-87: "Only include airports with valid IATA codes"
Included(airport) ==
    IF airport.iata # <<>> /\ Len(airport.iata) = 3 THEN <<airport>> ELSE <<>>

\* lines 64-87, the loop over the rows when no row raises
RECURSIVE Processed(_)
Processed(rows) ==
    IF rows = <<>> THEN <<>>
    ELSE (IF Head(rows).n >= 14 THEN Included(airport_of(Head(rows))) ELSE <<>>)
         \o Processed(Tail(rows))

\* "return None, None, None"
None == [ok |-> FALSE, airports |-> <<>>]

\* process_airport_data, lines 55-94: open() raises when the file is absent and
\* float() when a coordinate is no number; "except Exception" turns both into None
process_airport_data(file) ==
    IF ~file.present THEN None
    ELSE IF \E i \in 1..Len(file.rows) : Raises(file.rows[i]) THEN None
    ELSE [ok |-> TRUE, airports |-> Processed(file.rows)]

\* {airport['iata']: airport for airport in airports if airport['iata']}
RECURSIVE IndexBy(_, _, _)
IndexBy(d, recs, field) ==
    IF recs = <<>> THEN d
    ELSE IndexBy(IF Head(recs)[field] # <<>>
                 THEN DictSet(d, Head(recs)[field], Head(recs)) ELSE d,
                 Tail(recs), field)

\* a builder that keeps the first record of a code instead of the last
RECURSIVE IndexByFirst(_, _, _)
IndexByFirst(d, recs, field) ==
    IF recs = <<>> THEN d
    ELSE IndexByFirst(IF Head(recs)[field] # <<>> /\ ~DictHas(d, Head(recs)[field])
                      THEN DictSet(d, Head(recs)[field], Head(recs)) ELSE d,
                      Tail(recs), field)
create_iata_index_first_wins(recs) == IndexByFirst(<<>>, recs, "iata")

create_iata_index(recs) == IndexBy(<<>>, recs, "iata")

\* the same for the icao index
create_icao_index_first_wins(recs) == IndexByFirst(<<>>, recs, "icao")

create_icao_index(recs) == IndexBy(<<>>, recs, "icao")

\* f"{airport['city']}, {airport['country']}"
city_key(r) == r.city \o <<",", " ">> \o r.country

\* a grouping that files a record under its city alone
GroupKey_city_alone(r, kind) == IF kind = "city" THEN r.city ELSE r.country

\* the key a record is grouped under: the composite city key or the country
GroupKey(r, kind) == IF kind = "city" THEN city_key(r) ELSE r.country

\* defaultdict(list): index[key].append(airport)
RECURSIVE GroupBy(_, _, _)
GroupBy(d, recs, kind) ==
    IF recs = <<>> THEN d
    ELSE LET key == GroupKey(Head(recs), kind)
             old == IF DictHas(d, key) THEN DictGet(d, key) ELSE <<>>
         IN  GroupBy(DictSet(d, key, Append(old, Head(recs))), Tail(recs), kind)

create_city_index(recs) == GroupBy(<<>>, recs, "city")
create_country_index(recs) == GroupBy(<<>>, recs, "country")

\* data/*.json before extended_data.py has written them
NoFiles ==
    [present |-> FALSE, airports |-> <<>>, iata_index |-> <<>>, icao_index |-> <<>>,
     city_index |-> <<>>, country_index |-> <<>>]

\* save_processed_data, lines 96-115, with create_search_indexes, lines 117-151:
\* json.dump of the list of airports and of the four dicts
save_processed_data(recs) ==
    [present |-> TRUE, airports |-> recs,
     iata_index |-> create_iata_index(recs), icao_index |-> create_icao_index(recs),
     city_index |-> create_city_index(recs), country_index |-> create_country_index(recs)]

\* create_sample_data, lines 30-53: data/airports_raw.dat with the rows of
\* sample_data as csv.writer writes them, each number as str() gives it
create_sample_data ==
    [present |-> TRUE,
     rows |-> <<
     [n |-> 14, id |-> <<"1">>,
      name |-> <<"J", "o", "h", "n", " ", "F", " ", "K", "e", "n", "n", "e", "d", "y", " ", "I", "n", "t", "l">>,
      city |-> <<"N", "e", "w", " ", "Y", "o", "r", "k">>,
      country |-> <<"U", "n", "i", "t", "e", "d", " ", "S", "t", "a", "t", "e", "s">>,
      iata |-> <<"J", "F", "K">>, icao |-> <<"K", "J", "F", "K">>,
      latitude |-> <<"4", "0", ".", "6", "3", "9", "7", "5", "1">>,
      longitude |-> <<"-", "7", "3", ".", "7", "7", "8", "9", "2", "5">>],
     [n |-> 14, id |-> <<"2">>,
      name |-> <<"L", "o", "s", " ", "A", "n", "g", "e", "l", "e", "s", " ", "I", "n", "t", "l">>,
      city |-> <<"L", "o", "s", " ", "A", "n", "g", "e", "l", "e", "s">>,
      country |-> <<"U", "n", "i", "t", "e", "d", " ", "S", "t", "a", "t", "e", "s">>,
      iata |-> <<"L", "A", "X">>, icao |-> <<"K", "L", "A", "X">>,
      latitude |-> <<"3", "3", ".", "9", "4", "2", "5", "3", "6">>,
      longitude |-> <<"-", "1", "1", "8", ".", "4", "0", "8", "0", "7", "5">>],
     [n |-> 14, id |-> <<"3">>,
      name |-> <<"L", "o", "n", "d", "o", "n", " ", "H", "e", "a", "t", "h", "r", "o", "w">>,
      city |-> <<"L", "o", "n", "d", "o", "n">>,
      country |-> <<"U", "n", "i", "t", "e", "d", " ", "K", "i", "n", "g", "d", "o", "m">>,
      iata |-> <<"L", "H", "R">>, icao |-> <<"E", "G", "L", "L">>,
      latitude |-> <<"5", "1", ".", "4", "7", "0", "6">>,
      longitude |-> <<"-", "0", ".", "4", "6", "1", "9", "4", "1">>],
     [n |-> 14, id |-> <<"4">>,
      name |-> <<"T", "o", "k", "y", "o", " ", "H", "a", "n", "e", "d", "a", " ", "I", "n", "t", "l">>,
      city |-> <<"T", "o", "k", "y", "o">>,
      country |-> <<"J", "a", "p", "a", "n">>,
      iata |-> <<"H", "N", "D">>, icao |-> <<"R", "J", "T", "T">>,
      latitude |-> <<"3", "5", ".", "5", "5", "2", "2", "5", "8">>,
      longitude |-> <<"1", "3", "9", ".", "7", "7", "9", "6", "9", "4">>],
     [n |-> 14, id |-> <<"5">>,
      name |-> <<"C", "h", "a", "r", "l", "e", "s", " ", "d", "e", " ", "G", "a", "u", "l", "l", "e">>,
      city |-> <<"P", "a", "r", "i", "s">>,
      country |-> <<"F", "r", "a", "n", "c", "e">>,
      iata |-> <<"C", "D", "G">>, icao |-> <<"L", "F", "P", "G">>,
      latitude |-> <<"4", "9", ".", "0", "1", "2", "7", "7", "9">>,
      longitude |-> <<"2", ".", "5", "5">>],
     [n |-> 14, id |-> <<"6">>,
      name |-> <<"D", "u", "b", "a", "i", " ", "I", "n", "t", "l">>,
      city |-> <<"D", "u", "b", "a", "i">>,
      country |-> <<"U", "n", "i", "t", "e", "d", " ", "A", "r", "a", "b", " ", "E", "m", "i", "r", "a", "t", "e", "s">>,
      iata |-> <<"D", "X", "B">>, icao |-> <<"O", "M", "D", "B">>,
      latitude |-> <<"2", "5", ".", "2", "5", "2", "7", "7", "8">>,
      longitude |-> <<"5", "5", ".", "3", "6", "4", "4", "4", "4">>],
     [n |-> 14, id |-> <<"7">>,
      name |-> <<"S", "i", "n", "g", "a", "p", "o", "r", "e", " ", "C", "h", "a", "n", "g", "i">>,
      city |-> <<"S", "i", "n", "g", "a", "p", "o", "r", "e">>,
      country |-> <<"S", "i", "n", "g", "a", "p", "o", "r", "e">>,
      iata |-> <<"S", "I", "N">>, icao |-> <<"W", "S", "S", "S">>,
      latitude |-> <<"1", ".", "3", "5", "0", "1", "8", "9">>,
      longitude |-> <<"1", "0", "3", ".", "9", "9", "4", "4", "3", "3">>],
     [n |-> 14, id |-> <<"8">>,
      name |-> <<"A", "m", "s", "t", "e", "r", "d", "a", "m", " ", "S", "c", "h", "i", "p", "h", "o", "l">>,
      city |-> <<"A", "m", "s", "t", "e", "r", "d", "a", "m">>,
      country |-> <<"N", "e", "t", "h", "e", "r", "l", "a", "n", "d", "s">>,
      iata |-> <<"A", "M", "S">>, icao |-> <<"E", "H", "A", "M">>,
      latitude |-> <<"5", "2", ".", "3", "0", "8", "6", "1", "3">>,
      longitude |-> <<"4", ".", "7", "6", "3", "8", "8", "9">>],
     [n |-> 14, id |-> <<"9">>,
      name |-> <<"F", "r", "a", "n", "k", "f", "u", "r", "t", " ", "a", "m", " ", "M", "a", "i", "n">>,
      city |-> <<"F", "r", "a", "n", "k", "f", "u", "r", "t">>,
      country |-> <<"G", "e", "r", "m", "a", "n", "y">>,
      iata |-> <<"F", "R", "A">>, icao |-> <<"E", "D", "D", "F">>,
      latitude |-> <<"5", "0", ".", "0", "3", "3", "3", "3", "3">>,
      longitude |-> <<"8", ".", "5", "7", "0", "5", "5", "6">>],
     [n |-> 14, id |-> <<"1", "0">>,
      name |-> <<"H", "o", "n", "g", " ", "K", "o", "n", "g", " ", "I", "n", "t", "l">>,
      city |-> <<"H", "o", "n", "g", " ", "K", "o", "n", "g">>,
      country |-> <<"H", "o", "n", "g", " ", "K", "o", "n", "g">>,
      iata |-> <<"H", "K", "G">>, icao |-> <<"V", "H", "H", "H">>,
      latitude |-> <<"2", "2", ".", "3", "0", "8", "9", "1", "9">>,
      longitude |-> <<"1", "1", "3", ".", "9", "1", "4", "6", "0", "3">>],
     [n |-> 14, id |-> <<"1", "1">>,
      name |-> <<"S", "y", "d", "n", "e", "y", " ", "K", "i", "n", "g", "s", "f", "o", "r", "d", " ", "S", "m", "i", "t", "h">>,
      city |-> <<"S", "y", "d", "n", "e", "y">>,
      country |-> <<"A", "u", "s", "t", "r", "a", "l", "i", "a">>,
      iata |-> <<"S", "Y", "D">>, icao |-> <<"Y", "S", "S", "Y">>,
      latitude |-> <<"-", "3", "3", ".", "9", "4", "6", "6", "0", "9">>,
      longitude |-> <<"1", "5", "1", ".", "1", "7", "7", "0", "0", "2">>],
     [n |-> 14, id |-> <<"1", "2">>,
      name |-> <<"T", "o", "r", "o", "n", "t", "o", " ", "P", "e", "a", "r", "s", "o", "n", " ", "I", "n", "t", "l">>,
      city |-> <<"T", "o", "r", "o", "n", "t", "o">>,
      country |-> <<"C", "a", "n", "a", "d", "a">>,
      iata |-> <<"Y", "Y", "Z">>, icao |-> <<"C", "Y", "Y", "Z">>,
      latitude |-> <<"4", "3", ".", "6", "7", "7", "2", "2", "3">>,
      longitude |-> <<"-", "7", "9", ".", "6", "3", "0", "5", "5", "6">>],
     [n |-> 14, id |-> <<"1", "3">>,
      name |-> <<"M", "u", "m", "b", "a", "i", " ", "C", "h", "h", "a", "t", "r", "a", "p", "a", "t", "i", " ", "S", "h", "i", "v", "a", "j", "i">>,
      city |-> <<"M", "u", "m", "b", "a", "i">>,
      country |-> <<"I", "n", "d", "i", "a">>,
      iata |-> <<"B", "O", "M">>, icao |-> <<"V", "A", "B", "B">>,
      latitude |-> <<"1", "9", ".", "0", "8", "8", "6", "8", "6">>,
      longitude |-> <<"7", "2", ".", "8", "6", "7", "9", "1", "9">>],
     [n |-> 14, id |-> <<"1", "4">>,
      name |-> <<"B", "e", "i", "j", "i", "n", "g", " ", "C", "a", "p", "i", "t", "a", "l", " ", "I", "n", "t", "l">>,
      city |-> <<"B", "e", "i", "j", "i", "n", "g">>,
      country |-> <<"C", "h", "i", "n", "a">>,
      iata |-> <<"P", "E", "K">>, icao |-> <<"Z", "B", "A", "A">>,
      latitude |-> <<"4", "0", ".", "0", "8", "0", "1", "1", "1">>,
      longitude |-> <<"1", "1", "6", ".", "5", "8", "4", "5", "5", "6">>],
     [n |-> 14, id |-> <<"1", "5">>,
      name |-> <<"S", "ã", "o", " ", "P", "a", "u", "l", "o", " ", "G", "u", "a", "r", "u", "l", "h", "o", "s">>,
      city |-> <<"S", "ã", "o", " ", "P", "a", "u", "l", "o">>,
      country |-> <<"B", "r", "a", "z", "i", "l">>,
      iata |-> <<"G", "R", "U">>, icao |-> <<"S", "B", "G", "R">>,
      latitude |-> <<"-", "2", "3", ".", "4", "3", "5", "5", "5", "6">>,
      longitude |-> <<"-", "4", "6", ".", "4", "7", "3", "0", "5", "6">>]
     >>]

\* download_airport_data, lines 10-28: urlretrieve writes what it fetched over
\* data/airports_raw.dat, and when it raises create_sample_data writes the
\* sample rows over it; fetched is the file urlretrieve wrote, absent when it
\* raised
download_airport_data(fetched) == IF fetched.present THEN fetched ELSE create_sample_data

\* main, lines 162-169: "if airports is None: return" leaves the files as they were
SavedUnlessNone(processed, old) ==
    IF processed.ok THEN save_processed_data(processed.airports) ELSE old

\* main, lines 153-184: data/*.json after the download, the processing of the
\* raw file the download left and the save
main(fetched, old) ==
    SavedUnlessNone(process_airport_data(download_airport_data(fetched)), old)

\* json.load of an object: its members in file order; a name that comes again
\* keeps its first place and takes the later value.  Arrays, str and numbers
\* come back as they were written.
RECURSIVE json_object(_, _)
json_object(d, members) ==
    IF members = <<>> THEN d
    ELSE json_object(DictSet(d, Head(members).k, Head(members).v), Tail(members))

\* AirportSearch.load_data, lines 16-36, when the files exist
load_data(f) ==
    [airports |-> f.airports,
     iata_index |-> json_object(<<>>, f.iata_index),
     icao_index |-> json_object(<<>>, f.icao_index),
     city_index |-> json_object(<<>>, f.city_index),
     country_index |-> json_object(<<>>, f.country_index)]

----------------------------------------------------------------------------
(* smart_search.py: AirportSearch *)

RECURSIVE Concat(_)
Concat(lists) == IF lists = <<>> THEN <<>> ELSE Head(lists) \o Concat(Tail(lists))

\* the buckets of the given keys, one after the other (results.extend per key)
RECURSIVE Buckets(_, _)
Buckets(index, keys) ==
    IF keys = <<>> THEN <<>>
    ELSE DictGet(index, Head(keys)) \o Buckets(index, Tail(keys))

\* a code lookup that asks both indexes whatever the length of the code
search_by_code_any_length(code0) ==
    LET code == strip(upper(code0))
    IN  IF DictHas(iata_index, code)
        THEN [res |-> <<DictGet(iata_index, code)>>, via |-> "iata", printed |-> <<>>]
        ELSE IF DictHas(icao_index, code)
        THEN [res |-> <<DictGet(icao_index, code)>>, via |-> "icao", printed |-> <<>>]
        ELSE [res |-> <<>>, via |-> "none",
              printed |-> get_close_matches(
                  code, DictKeys(iata_index) \o DictKeys(icao_index), CodeSuggestions)]

\* search_by_code, lines 45-71: res is the returned list, printed the suggestions
\* of the "Did you mean" lines; code = code.upper().strip()
search_by_code(code0) ==
    LET code == strip(upper(code0))
    IN  IF Len(code) = 3 /\ DictHas(iata_index, code)
        THEN [res |-> <<DictGet(iata_index, code)>>, via |-> "iata", printed |-> <<>>]
        ELSE IF Len(code) = 4 /\ DictHas(icao_index, code)
        THEN [res |-> <<DictGet(icao_index, code)>>, via |-> "icao", printed |-> <<>>]
        ELSE [res |-> <<>>, via |-> "none",
              printed |-> get_close_matches(
                  code, DictKeys(iata_index) \o DictKeys(icao_index), CodeSuggestions)]

\* a key scan that compares case-sensitively
RECURSIVE CityKeysContaining_case_sensitive(_, _)
CityKeysContaining_case_sensitive(keys, name) ==
    IF keys = <<>> THEN <<>>
    ELSE (IF Contains(Head(keys), name) THEN <<Head(keys)>> ELSE <<>>)
         \o CityKeysContaining_case_sensitive(Tail(keys), name)

\* a scan that keeps the keys that start with the name, ignoring case
RECURSIVE CityKeysContaining_at_start(_, _)
CityKeysContaining_at_start(keys, name) ==
    IF keys = <<>> THEN <<>>
    ELSE (IF /\ Len(name) <= Len(Head(keys))
             /\ SubSeq(lower(Head(keys)), 1, Len(name)) = lower(name)
          THEN <<Head(keys)>> ELSE <<>>)
         \o CityKeysContaining_at_start(Tail(keys), name)

\* the keys of the city index that contain the name, ignoring case, in index order
RECURSIVE CityKeysContaining(_, _)
CityKeysContaining(keys, name) ==
    IF keys = <<>> THEN <<>>
    ELSE (IF Contains(lower(Head(keys)), lower(name)) THEN <<Head(keys)>> ELSE <<>>)
         \o CityKeysContaining(Tail(keys), name)

\* "if not results:" the list of the exact lookup, else the list of the fuzzy
\* matches; either may be empty
ExactThenFuzzy(exact, exactTag, fuzzy, fuzzyTag) ==
    IF exact # <<>> THEN [res |-> exact, via |-> exactTag]
    ELSE IF fuzzy # <<>> THEN [res |-> fuzzy, via |-> fuzzyTag]
    ELSE [res |-> <<>>, via |-> "none"]

\* the two lookups the other way round
FuzzyThenExact(fuzzy, fuzzyTag, exact, exactTag) ==
    IF fuzzy # <<>> THEN [res |-> fuzzy, via |-> fuzzyTag]
    ELSE IF exact # <<>> THEN [res |-> exact, via |-> exactTag]
    ELSE [res |-> <<>>, via |-> "none"]

\* a city lookup that fuzzy-matches before it tries the substring scan
search_by_city_fuzzy_first(city_name0) ==
    FuzzyThenExact(
        Buckets(city_index, get_close_matches(strip(city_name0), DictKeys(city_index),
                                              CityMatches)),
        "city_fuzzy",
        Buckets(city_index, CityKeysContaining(DictKeys(city_index), strip(city_name0))),
        "city_substring")

\* search_by_city, lines 73-90: the substring scan, else up to 10 fuzzy matches
search_by_city(city_name0) ==
    ExactThenFuzzy(
        Buckets(city_index, CityKeysContaining(DictKeys(city_index), strip(city_name0))),
        "city_substring",
        Buckets(city_index, get_close_matches(strip(city_name0), DictKeys(city_index),
                                              CityMatches)),
        "city_fuzzy")

\* search_by_country, lines 92-108: the exact key, else up to 3 fuzzy matches
search_by_country(country_name0) ==
    IF DictHas(country_index, strip(country_name0))
    THEN [res |-> DictGet(country_index, strip(country_name0)), via |-> "country_exact"]
    ELSE ExactThenFuzzy(
             <<>>, "country_exact",
             Buckets(country_index,
                     get_close_matches(strip(country_name0), DictKeys(country_index),
                                       CountryMatches)),
             "country_fuzzy")

\* a name scan that does not lower-case the stored name
RECURSIVE NameScan_case_sensitive(_, _)
NameScan_case_sensitive(recs, name) ==
    IF recs = <<>> THEN <<>>
    ELSE (IF Contains(Head(recs).name, name) THEN <<Head(recs)>> ELSE <<>>)
         \o NameScan_case_sensitive(Tail(recs), name)

\* search_by_name, lines 110-119: the query is lower-cased, then stripped
RECURSIVE NameScan(_, _)
NameScan(recs, name) ==
    IF recs = <<>> THEN <<>>
    ELSE (IF Contains(lower(Head(recs).name), name) THEN <<Head(recs)>> ELSE <<>>)
         \o NameScan(Tail(recs), name)

Found(found) == [res |-> found, via |-> IF found # <<>> THEN "name" ELSE "none"]
search_by_name(airport_name0) == Found(NameScan(airports, strip(lower(airport_name0))))

\* an insertion that puts a record before the records of its own city
RECURSIVE InsertByCity_before_equals(_, _)
InsertByCity_before_equals(sorted, r) ==
    IF sorted = <<>> THEN <<r>>
    ELSE IF ~StrLess(Head(sorted).city, r.city) THEN <<r>> \o sorted
    ELSE <<Head(sorted)>> \o InsertByCity_before_equals(Tail(sorted), r)

\* sorted(airports, key=lambda x: x['city']): stable, ascending on the city str
RECURSIVE InsertByCity(_, _)
InsertByCity(sorted, r) ==
    IF sorted = <<>> THEN <<r>>
    ELSE IF StrLess(r.city, Head(sorted).city) THEN <<r>> \o sorted
    ELSE <<Head(sorted)>> \o InsertByCity(Tail(sorted), r)
RECURSIVE SortedByCity(_)
SortedByCity(recs) ==
    IF recs = <<>> THEN <<>>
    ELSE InsertByCity(SortedByCity(SubSeq(recs, 1, Len(recs) - 1)), recs[Len(recs)])

\* "if matches:" the sorted bucket of matches[0]
BucketOfFirst(matches) ==
    IF matches # <<>>
    THEN [res |-> SortedByCity(DictGet(country_index, matches[1])), via |-> "country_fuzzy"]
    ELSE [res |-> <<>>, via |-> "none"]

\* get_country_airports, lines 230-244: the name is not stripped here
get_country_airports(country_name) ==
    IF DictHas(country_index, country_name)
    THEN [res |-> SortedByCity(DictGet(country_index, country_name)),
          via |-> "country_exact"]
    ELSE BucketOfFirst(get_close_matches(country_name, DictKeys(country_index),
                                         CountryListingMatches))

\* a guard that forgets isalpha()
LooksLikeCode_length_only(q) == Len(q) \in {3, 4}

\* "if len(query) in [3, 4] and query.isalpha()", on the stripped query
LooksLikeCode(q) == Len(q) \in {3, 4} /\ isalpha(q)

Call(name, r) == <<[s |-> name, res |-> r.res]>>
Outcome(r, trace, out) == [res |-> r.res, via |-> r.via, calls |-> trace, printed |-> out]

\* smart_search, lines 144-149: name is what search_by_name returned, trace the
\* calls made before it, out what they printed
AfterName(trace, out, name) == Outcome(name, trace \o Call("name", name), out)

\* lines 139-142: country is what search_by_country returned
AfterCountry(q, trace, out, country) ==
    IF country.res # <<>> THEN Outcome(country, trace \o Call("country", country), out)
    ELSE AfterName(trace \o Call("country", country), out, search_by_name(q))

\* a chain that goes on to the country lookup whatever the city lookup found
AfterCity_ignoring_result(q, trace, out, city) ==
    AfterCountry(q, trace \o Call("city", city), out, search_by_country(q))

\* lines 134-137: city is what search_by_city returned
AfterCity(q, trace, out, city) ==
    IF city.res # <<>> THEN Outcome(city, trace \o Call("city", city), out)
    ELSE AfterCountry(q, trace \o Call("city", city), out, search_by_country(q))

\* lines 130-132: code is what search_by_code returned
AfterCode(q, code) ==
    IF code.res # <<>> THEN Outcome(code, Call("code", code), code.printed)
    ELSE AfterCity(q, Call("code", code), code.printed, search_by_city(q))

\* lines 128-135, for a query that is not empty
NonEmptyQuery(q) ==
    IF LooksLikeCode(q) THEN AfterCode(q, search_by_code(q))
    ELSE AfterCity(q, <<>>, <<>>, search_by_city(q))

\* lines 125-126
Stripped(q) ==
    IF q = <<>> THEN [res |-> <<>>, via |-> "none", calls |-> <<>>, printed |-> <<>>]
    ELSE NonEmptyQuery(q)

\* a chain that does not return early on an empty query
smart_search_no_empty_check(query0) == NonEmptyQuery(strip(query0))

\* smart_search, lines 121-149: calls lists the search_by_* calls made, in order
smart_search(query0) == Stripped(strip(query0))

----------------------------------------------------------------------------
(* The inputs: the rows of the raw dataset and the queries a caller types *)

MaxRows == 2

\* rows of 14 fields that process_airport_data keeps
Rows ==
    {
     [n |-> 14, id |-> <<"1">>,
      name |-> <<"I", "n", "d", "i", "r", "a", " ", "G", "a", "n", "d", "h", "i">>,
      city |-> <<"D", "e", "l", "h", "i">>, country |-> <<"I", "n", "d", "i", "a">>,
      iata |-> <<"D", "E", "L">>, icao |-> <<"V", "I", "D", "P">>,
      latitude |-> <<"2", "8">>, longitude |-> <<"7", "7">>],
     [n |-> 14, id |-> <<"2">>,
      name |-> <<"S", "a", "f", "d", "a", "r", "j", "u", "n", "g">>,
      city |-> <<"D", "e", "l", "h", "i">>, country |-> <<"I", "n", "d", "i", "a">>,
      iata |-> <<"D", "E", "L">>, icao |-> <<"V", "I", "D", "D">>,
      latitude |-> <<"2", "8">>, longitude |-> <<"7", "7">>],
     [n |-> 14, id |-> <<"3">>,
      name |-> <<"N", "i", "a", "m", "e", "y">>,
      city |-> <<"N", "i", "a", "m", "e", "y">>, country |-> <<"N", "i", "g", "e", "r">>,
      iata |-> <<"N", "I", "M">>, icao |-> <<"D", "R", "R", "N">>,
      latitude |-> <<"1", "3">>, longitude |-> <<"2">>],
     [n |-> 14, id |-> <<"4">>,
      name |-> <<"L", "a", "g", "o", "s">>,
      city |-> <<"L", "a", "g", "o", "s">>, country |-> <<"N", "i", "g", "e", "r", "i", "a">>,
      iata |-> <<"L", "O", "S">>, icao |-> <<"D", "N", "M", "M">>,
      latitude |-> <<"6">>, longitude |-> <<"3">>],
     [n |-> 14, id |-> <<"5">>,
      name |-> <<"K", "a", "n", "o">>,
      city |-> <<"K", "a", "n", "o">>, country |-> <<"N", "i", "g", "e", "r", "i", "a">>,
      iata |-> <<"k", "a", "n">>, icao |-> <<"K", "A", "N">>,
      latitude |-> <<"1", "2">>, longitude |-> <<"8">>]
    }

\* rows it leaves out or fails on: no iata, an iata that is no word of letters
\* (kept all the same), fewer than 14 fields, a latitude that is no number, the
\* \\N the OpenFlights data has for a missing iata
OtherRows ==
    {
     [n |-> 14, id |-> <<"6">>,
      name |-> <<"B", "i", "l", "m", "a">>,
      city |-> <<"B", "i", "l", "m", "a">>, country |-> <<"N", "i", "g", "e", "r">>,
      iata |-> <<>>, icao |-> <<"D", "R", "Z", "B">>,
      latitude |-> <<"1", "8">>, longitude |-> <<"1", "2">>],
     [n |-> 14, id |-> <<"7">>,
      name |-> <<"\"", "G", "a", "y", "a", "\"">>,
      city |-> <<"G", "a", "y", "a">>, country |-> <<"I", "n", "d", "i", "a">>,
      iata |-> <<"G", "4", "Y">>, icao |-> <<"V", "I", "D", "P">>,
      latitude |-> <<"2", "4">>, longitude |-> <<"8", "5">>],
     [n |-> 5, id |-> <<"8">>,
      name |-> <<"A", "g", "a", "d", "e", "s">>,
      city |-> <<"A", "g", "a", "d", "e", "s">>, country |-> <<"N", "i", "g", "e", "r">>,
      iata |-> <<"A", "J", "Y">>, icao |-> <<>>,
      latitude |-> <<>>, longitude |-> <<>>],
     [n |-> 14, id |-> <<"9">>,
      name |-> <<"Z", "i", "n", "d", "e", "r">>,
      city |-> <<"Z", "i", "n", "d", "e", "r">>, country |-> <<"N", "i", "g", "e", "r">>,
      iata |-> <<"Z", "N", "D">>, icao |-> <<"D", "R", "Z", "R">>,
      latitude |-> <<"a", "b", "c">>, longitude |-> <<"8">>],
     [n |-> 14, id |-> <<"1", "0">>,
      name |-> <<"M", "a", "r", "a", "d", "i">>,
      city |-> <<"M", "a", "r", "a", "d", "i">>, country |-> <<"N", "i", "g", "e", "r">>,
      iata |-> <<"\\", "N">>, icao |-> <<"D", "R", "R", "M">>,
      latitude |-> <<"1", "3">>, longitude |-> <<"7">>]
    }

Queries ==
    {<<>>,
     <<" ", " ">>,
     <<"D", "E", "L">>,
     <<"d", "e", "l">>,
     <<" ", "d", "e", "l", " ">>,
     <<"k", "a", "n">>,
     <<"K", "A", "N">>,
     <<"N", "I", "M">>,
     <<"v", "i", "d", "p">>,
     <<"D", "E", "L", "L">>,
     <<"V", "I", "D", "X">>,
     <<"X", "Y", "Z">>,
     <<"N", "1", "M">>,
     <<"K", "a", "n", "o">>,
     <<"n", "i", "g", "e", "r">>,
     <<"L", "a", "g", "o", "s", " ", "N", "i", "g", "e", "r", "i", "a">>,
     <<"I", "n", "d", "i", "a">>,
     <<" ", "I", "n", "d", "i", "a", " ">>,
     <<"N", "i", "g", "e", "r">>,
     <<"N", "i", "g", "e", "r", "i", "a">>,
     <<"N", "i", "g", "e", "r", "a">>,
     <<"I", "n", "d", "i", "r", "a">>,
     <<"a">>,
     <<"a", " ">>}

RawDatasets == UNION {[1..n -> Rows] : n \in 0..MaxRows}

\* the raw file before the builder runs, and what urlretrieve makes of it: no
\* file (before, there is none; after, the download raised), or rows of either
\* kind
BuilderRows == {r \in Rows : r.city = <<"D", "e", "l", "h", "i">>} \cup OtherRows
BuilderDatasets ==
    {[present |-> FALSE, rows |-> <<>>]}
    \cup {[present |-> TRUE, rows |-> rows] :
              rows \in UNION {[1..n -> BuilderRows] : n \in 0..MaxRows}}

----------------------------------------------------------------------------
(* The state machine *)

Operations ==
    {"smart_search", "search_by_code", "search_by_city", "search_by_country",
     "search_by_name", "get_country_airports"}

\* AirportSearch.__init__: load_data reads the store and the four indexes that
\* extended_data.py built from the raw rows it downloaded and wrote to
\* data/*.json
EngineStarted(raw) ==
    /\ dataset = download_airport_data([present |-> TRUE, rows |-> raw])
    /\ files = main([present |-> TRUE, rows |-> raw], NoFiles)
    /\ airports = load_data(files).airports
    /\ iata_index = load_data(files).iata_index
    /\ icao_index = load_data(files).icao_index
    /\ city_index = load_data(files).city_index
    /\ country_index = load_data(files).country_index
    /\ pc = "idle"
    /\ op = "load_data"
    /\ query = <<>>
    /\ results = <<>>
    /\ via = "none"
    /\ calls = <<>>
    /\ printed = <<>>
    /\ radius_km = 0
    /\ ref_airport = <<>>

\* the engine on its own: final_system.py is not running
Started(raw) ==
    /\ EngineStarted(raw)
    /\ menu = "none"
    /\ shown = <<>>
    /\ typed = <<>>
    /\ said = [what |-> "nothing", n |-> 0]
    /\ exported = <<>>

Init == \E raw \in RawDatasets : Started(raw)

\* a caller invokes an operation of the engine with the text it read
\* (run_search: query = input(...), then self.smart_search(query))
Invoke ==
    \E name \in Operations, q \in Queries :
        /\ pc = "idle"
        /\ pc' = "called"
        /\ op' = name
        /\ query' = q
        /\ results' = <<>>
        /\ via' = "none"
        /\ calls' = <<>>
        /\ printed' = <<>>
        /\ UNCHANGED <<store, dataset, files, geo, shell>>

\* a return after which the buckets of the country index are sorted by city, as
\* list.sort() on the bucket would leave them where sorted() copies it
SortedBuckets(index) ==
    [i \in 1..Len(index) |-> [k |-> index[i].k, v |-> SortedByCity(index[i].v)]]
Returned_sorting_in_place(name, r, trace, out) ==
    /\ pc = "called"
    /\ op = name
    /\ pc' = "idle"
    /\ results' = r.res
    /\ via' = r.via
    /\ calls' = trace
    /\ printed' = out
    /\ country_index' =
           IF name = "get_country_airports" THEN SortedBuckets(country_index)
           ELSE country_index
    /\ UNCHANGED <<op, query>>
    /\ UNCHANGED <<airports, iata_index, icao_index, city_index, dataset, files,
                   geo, shell>>

\* the operation runs to completion and returns
Returned(name, r, trace, out) ==
    /\ pc = "called"
    /\ op = name
    /\ pc' = "idle"
    /\ results' = r.res
    /\ via' = r.via
    /\ calls' = trace
    /\ printed' = out
    /\ UNCHANGED <<op, query>>
    /\ UNCHANGED <<store, dataset, files, geo, shell>>

SmartSearch ==
    LET r == smart_search(query) IN Returned("smart_search", r, r.calls, r.printed)

SearchByCode ==
    LET r == search_by_code(query) IN Returned("search_by_code", r, <<>>, r.printed)

SearchByCity == Returned("search_by_city", search_by_city(query), <<>>, <<>>)

SearchByCountry == Returned("search_by_country", search_by_country(query), <<>>, <<>>)

SearchByName == Returned("search_by_name", search_by_name(query), <<>>, <<>>)

GetCountryAirports ==
    Returned("get_country_airports", get_country_airports(query), <<>>, <<>>)

Next ==
    \/ Invoke
    \/ SmartSearch
    \/ SearchByCode
    \/ SearchByCity
    \/ SearchByCountry
    \/ SearchByName
    \/ GetCountryAirports

Spec == Init /\ [][Next]_vars

\* the operation `name` has returned: results, via, calls and printed are its outcome
Done(name) == pc = "idle" /\ op = name

----------------------------------------------------------------------------
(* The builder and the start of the engine: python extended_data.py, then
   AirportSearch() *)

\* before extended_data.py runs: the raw file of an earlier run is there or
\* not, data/*.json are not, and no engine exists yet (its fields are those __init__ sets, lines 9-13)
LoadInit ==
    /\ dataset \in BuilderDatasets
    /\ files = NoFiles
    /\ airports = <<>>
    /\ iata_index = <<>>
    /\ icao_index = <<>>
    /\ city_index = <<>>
    /\ country_index = <<>>
    /\ pc = "raw"
    /\ op = "none"
    /\ query = <<>>
    /\ results = <<>>
    /\ via = "none"
    /\ calls = <<>>
    /\ printed = <<>>
    /\ radius_km = 0
    /\ ref_airport = <<>>
    /\ menu = "none"
    /\ shown = <<>>
    /\ typed = <<>>
    /\ said = [what |-> "nothing", n |-> 0]
    /\ exported = <<>>

\* extended_data.main, lines 153-184: the download rewrites the raw file,
\* whatever it held, before the rows are processed and saved
Main ==
    \E fetched \in BuilderDatasets :
        /\ pc = "raw"
        /\ dataset' = download_airport_data(fetched)
        /\ files' = main(fetched, files)
        /\ pc' = IF process_airport_data(download_airport_data(fetched)).ok
                 THEN "saved" ELSE "failed"
        /\ op' = "main"
        /\ UNCHANGED <<store, query, results, via, calls, printed, geo, shell>>

\* AirportSearch.__init__ with the files there: load_data reads them
LoadData ==
    /\ pc \in {"saved", "failed"}
    /\ files.present
    /\ airports' = load_data(files).airports
    /\ iata_index' = load_data(files).iata_index
    /\ icao_index' = load_data(files).icao_index
    /\ city_index' = load_data(files).city_index
    /\ country_index' = load_data(files).country_index
    /\ pc' = "idle"
    /\ op' = "load_data"
    /\ UNCHANGED <<dataset, files, query, results, via, calls, printed, geo, shell>>

\* AirportSearch.__init__ without them: FileNotFoundError, lines 38-40, exit(1)
LoadDataExits ==
    /\ pc \in {"saved", "failed"}
    /\ ~files.present
    /\ pc' = "exited"
    /\ op' = "load_data"
    /\ UNCHANGED <<store, dataset, files, query, results, via, calls, printed,
                   geo, shell>>

LoadNext ==
    \/ Main
    \/ LoadData
    \/ LoadDataExits

LoadSpec == LoadInit /\ [][LoadNext]_vars

----------------------------------------------------------------------------
(* The nearby search of the distance menu, final_system.py lines 211-224.
   advanced_features.py, which holds find_nearby_airports, is not among the
   sources: the distance and the radius scan follow section 4.5 of the
   specification. *)

MaxPool == 3

\* the haversine distance, with an Earth radius of 6371 km, between the
\* coordinates the rows carry, to the metre
GreatCircle ==
    {[ends |-> {<<28000000, 77000000>>, <<13000000, 2000000>>}, m |-> 7876594],
     [ends |-> {<<28000000, 77000000>>, <<6000000, 3000000>>}, m |-> 8125612],
     [ends |-> {<<28000000, 77000000>>, <<12000000, 8000000>>}, m |-> 7336232],
     [ends |-> {<<13000000, 2000000>>, <<6000000, 3000000>>}, m |-> 786042],
     [ends |-> {<<13000000, 2000000>>, <<12000000, 8000000>>}, m |-> 660755],
     [ends |-> {<<6000000, 3000000>>, <<12000000, 8000000>>}, m |-> 863920]}
Coordinates(r) == <<r.latitude, r.longitude>>
distance_m(a, b) ==
    IF Coordinates(a) = Coordinates(b) THEN 0
    ELSE (CHOOSE e \in GreatCircle : e.ends = {Coordinates(a), Coordinates(b)}).m

\* ascending by distance, then by record identifier
Nearer(p, q) ==
    \/ p.distance_m < q.distance_m
    \/ p.distance_m = q.distance_m /\ p.airport.id < q.airport.id
RECURSIVE InsertByDistance(_, _)
InsertByDistance(sorted, p) ==
    IF sorted = <<>> THEN <<p>>
    ELSE IF Nearer(p, Head(sorted)) THEN <<p>> \o sorted
    ELSE <<Head(sorted)>> \o InsertByDistance(Tail(sorted), p)
RECURSIVE SortedByDistance(_)
SortedByDistance(ps) ==
    IF ps = <<>> THEN <<>>
    ELSE InsertByDistance(SortedByDistance(SubSeq(ps, 1, Len(ps) - 1)), ps[Len(ps)])

\* a scan of the pool that does not leave the reference out
RECURSIVE Candidates_with_reference(_, _)
Candidates_with_reference(reference, pool) ==
    IF pool = <<>> THEN <<>>
    ELSE <<[airport |-> Head(pool), distance_m |-> distance_m(reference, Head(pool))]>>
         \o Candidates_with_reference(reference, Tail(pool))

\* the candidates of the pool with their distances, the reference left out
RECURSIVE Candidates(_, _)
Candidates(reference, pool) ==
    IF pool = <<>> THEN <<>>
    ELSE (IF Head(pool).id # reference.id
          THEN <<[airport |-> Head(pool), distance_m |-> distance_m(reference, Head(pool))]>>
          ELSE <<>>)
         \o Candidates(reference, Tail(pool))

\* a radius scan that keeps only the candidates strictly inside the radius
nearby_strictly_inside(reference, radiusKm, pool) ==
    SortedByDistance(SelectSeq(Candidates(reference, pool),
                               LAMBDA p : p.distance_m < radiusKm * 1000))

\* nearby(reference, radiusKm, pool): the candidates within the radius, the
\* boundary included, ascending by distance, ties by record identifier
nearby(reference, radiusKm, pool) ==
    SortedByDistance(SelectSeq(Candidates(reference, pool),
                               LAMBDA p : p.distance_m <= radiusKm * 1000))

\* find_nearby_airports(airport_code, radius_km): the reference is the record
\* the code lookup resolves the code to; (None, []) when it resolves to none
NearbyOf(ref, radius) ==
    IF ref = <<>> THEN [ref_airport |-> <<>>, nearby_airports |-> <<>>]
    ELSE [ref_airport |-> ref, nearby_airports |-> nearby(ref[1], radius, airports)]
find_nearby_airports(airport_code, radius) ==
    NearbyOf(search_by_code(airport_code).res, radius)

\* int(radius): the texts of whole numbers, with or without a sign, are the
\* ones typed; any other text typed makes int raise ValueError
int_raises(s) ==
    ~(isdigit(s) \/ (Len(s) > 1 /\ Head(s) = "-" /\ isdigit(Tail(s))))

\* final_system.py lines 216-220
DefaultRadius == 100
radius_of(radius) ==
    IF radius = <<>> THEN DefaultRadius
    ELSE IF int_raises(radius) THEN DefaultRadius
    ELSE int(radius)

\* what the user types at "Enter airport code: " and "Enter radius in km"
CodesTyped ==
    {<<>>, <<"D", "E", "L">>, <<" ", "n", "i", "m">>, <<"L", "O", "S">>, <<"X", "Y", "Z">>}
RadiiTyped ==
    {<<>>, <<"0">>, <<"7", "0", "0">>, <<"9", "0", "0", "0">>, <<"a", "b", "c">>, <<"-", "1">>}

Pools == UNION {[1..n -> Rows] : n \in 0..MaxPool}

GeoInit == \E raw \in Pools : Started(raw)

\* run_distance_menu, choice '2', lines 211-224, with what the two calls returned
NearbyFound(code, radius, found) ==
    /\ pc = "idle"
    /\ code # <<>>
    /\ op' = "find_nearby_airports"
    /\ query' = code
    /\ radius_km' = radius
    /\ ref_airport' = found.ref_airport
    /\ results' = found.nearby_airports
    /\ via' = IF found.ref_airport # <<>> THEN "nearby" ELSE "none"
    /\ UNCHANGED <<store, dataset, files, pc, calls, printed, shell>>
NearbyParsed(code, radius) == NearbyFound(code, radius, find_nearby_airports(code, radius))
NearbyMenu ==
    \E code \in CodesTyped, radius \in RadiiTyped :
        NearbyParsed(strip(code), radius_of(strip(radius)))

GeoNext == NearbyMenu

GeoSpec == GeoInit /\ [][GeoNext]_vars

----------------------------------------------------------------------------
(* The shell: run_main_system of final_system.py and the menus it runs, with
   run_statistics_menu of statistics_reports.py and run_search of
   smart_search.py. The search system, the advanced features and the
   statistics system each load the same files, so the store stands for the
   three of them. A step is one pass of the loop whose prompt is waiting, from
   the text typed there to the next prompt of a loop. *)

MaxShown == 5

\* input(): the text typed, or what it raises on Ctrl+C and at the end of input
Text(t) == [raises |-> "none", text |-> t]
Raising ==
    {[raises |-> "KeyboardInterrupt", text |-> <<>>],
     [raises |-> "EOFError", text |-> <<>>]}

\* what the user types at "Choose option"
ChoicesTyped ==
    {Text(<<"1">>), Text(<<"2">>), Text(<<"3">>), Text(<<"4">>), Text(<<"5">>),
     Text(<<"6">>), Text(<<" ", "6", " ">>), Text(<<"7">>), Text(<<"x">>), Text(<<>>)}
Chosen(c) == {k \in ChoicesTyped : strip(k.text) = c}

\* what a pass printed last, with the number it showed
Said(what, n) == [what |-> what, n |-> n]

\* the pass ends at the prompt of the loop m, whose menu or banner it displays
\* on the way there
Prompt(m, keys, what) ==
    /\ menu' = m
    /\ shown' = Append(shown, m)
    /\ typed' = keys
    /\ said' = what

\* the pass ends the main loop: run_main_system returns
Ended(keys, what) ==
    /\ menu' = "ended"
    /\ shown' = shown
    /\ typed' = keys
    /\ said' = what

\* the prompt of the loop m is waiting and the display has room for one more menu
At(m) == menu = m /\ Len(shown) < MaxShown

Untouched ==
    UNCHANGED <<store, dataset, files, pc, op, query, results, via, calls, printed,
                geo, exported>>

\* an operation of the engine called from a menu has returned r
Answered(name, q, r) ==
    /\ op' = name
    /\ query' = q
    /\ results' = r.res
    /\ via' = r.via
    /\ calls' = <<>>
    /\ printed' = <<>>
    /\ UNCHANGED <<store, dataset, files, pc, geo>>

\* what the user types at "Enter country name" and "Enter city name"
CountriesTyped ==
    {Text(<<>>), Text(<<"I", "n", "d", "i", "a">>), Text(<<"N", "i", "g", "e", "r", "a">>),
     Text(<<"P", "e", "r", "u">>)}

\* display_country_details, statistics_reports.py lines 85-132, and
\* display_country_airports, smart_search.py lines 200-228, back at the prompt
\* of the loop m: found is what get_country_airports returned
CountryShown(m, what, choice, country, found) ==
    /\ Prompt(m, <<choice, country>>,
              Said(IF found.res = <<>> THEN "no_data" ELSE what, Len(found.res)))
    /\ Answered("get_country_airports", strip(country.text), found)
    /\ UNCHANGED exported

(* run_statistics_menu, statistics_reports.py lines 187-252 *)

\* a handler that breaks out of the loop on Ctrl+C, as the other menus do, so
\* that the method returns False
StatisticsExcept_breaking(key, keys) ==
    \/ /\ key.raises = "KeyboardInterrupt"
       /\ Prompt("main", keys, Said("goodbye", 0))
    \/ /\ key.raises = "EOFError"
       /\ Prompt("statistics", keys, Said("error", 0))

\* lines 246-250: Ctrl+C returns True, and run_main_system breaks on it
\* (final_system.py lines 283-286); any other exception is printed and the loop
\* goes on
StatisticsExcept(key, keys) ==
    \/ /\ key.raises = "KeyboardInterrupt"
       /\ Ended(keys, Said("goodbye", 0))
    \/ /\ key.raises = "EOFError"
       /\ Prompt("statistics", keys, Said("error", 0))

\* the prompt "Choose option (1-7): " raises
StatisticsRaised ==
    /\ At("statistics")
    /\ \E choice \in Raising : StatisticsExcept(choice, <<choice>>)
    /\ Untouched

\* choice '1', lines 205-206
StatisticsOverview ==
    /\ At("statistics")
    /\ \E choice \in Chosen(<<"1">>) :
           Prompt("statistics", <<choice>>, Said("global_overview", Len(airports)))
    /\ Untouched

\* int(limit) if limit else 20, except ValueError: 20 (lines 209-213, 217-221)
limit_of(limit) ==
    IF limit = <<>> THEN 20
    ELSE IF int_raises(limit) THEN 20
    ELSE int(limit)

\* choices '2' and '3', lines 208-222
StatisticsTop ==
    /\ At("statistics")
    /\ \E choice \in Chosen(<<"2">>) \cup Chosen(<<"3">>),
          limit \in {Text(<<>>), Text(<<"5">>), Text(<<"a", "b", "c">>)} \cup Raising :
           IF limit.raises # "none" THEN StatisticsExcept(limit, <<choice, limit>>)
           ELSE Prompt("statistics", <<choice, limit>>,
                       Said(IF strip(choice.text) = <<"2">> THEN "top_countries"
                            ELSE "top_cities",
                            limit_of(strip(limit.text))))
    /\ Untouched

\* choice '4', lines 224-227
StatisticsCountry ==
    /\ At("statistics")
    /\ \E choice \in Chosen(<<"4">>), country \in CountriesTyped \cup Raising :
           IF country.raises # "none"
           THEN StatisticsExcept(country, <<choice, country>>) /\ Untouched
           ELSE IF strip(country.text) = <<>>
           THEN Prompt("statistics", <<choice, country>>, Said("nothing", 0)) /\ Untouched
           ELSE CountryShown("statistics", "country_details", choice, country,
                             get_country_airports(strip(country.text)))

\* str.replace(' ', '_')
RECURSIVE replace_spaces(_)
replace_spaces(s) ==
    IF s = <<>> THEN <<>>
    ELSE <<IF Head(s) = " " THEN "_" ELSE Head(s)>> \o replace_spaces(Tail(s))

\* export_country_data, lines 159-185, of the airports listed: the file it
\* writes, under the name typed or under "<country>_airports.json"
export_country_data(listed, filename) ==
    IF listed = <<>> THEN exported
    ELSE DictSet(exported,
                 IF filename = <<>>
                 THEN lower(replace_spaces(listed[1].country))
                      \o <<"_", "a", "i", "r", "p", "o", "r", "t", "s",
                           ".", "j", "s", "o", "n">>
                 ELSE filename,
                 [country |-> listed[1].country, total_airports |-> Len(listed),
                  airports |-> listed])

\* choice '5', lines 229-234
StatisticsExport ==
    /\ At("statistics")
    /\ \E choice \in Chosen(<<"5">>), country \in CountriesTyped \cup Raising,
          filename \in {Text(<<>>), Text(<<"o", "u", "t">>)} \cup Raising :
           IF country.raises # "none"
           THEN StatisticsExcept(country, <<choice, country>>) /\ Untouched
           ELSE IF strip(country.text) = <<>>
           THEN Prompt("statistics", <<choice, country>>, Said("nothing", 0)) /\ Untouched
           ELSE IF filename.raises # "none"
           THEN StatisticsExcept(filename, <<choice, country, filename>>) /\ Untouched
           ELSE /\ Prompt("statistics", <<choice, country, filename>>,
                          Said(IF get_country_airports(strip(country.text)).res = <<>>
                               THEN "no_data" ELSE "exported",
                               Len(get_country_airports(strip(country.text)).res)))
                /\ Answered("get_country_airports", strip(country.text),
                            get_country_airports(strip(country.text)))
                /\ exported' =
                       export_country_data(get_country_airports(strip(country.text)).res,
                                           strip(filename.text))

\* choice '6', lines 236-237 and 252: the loop breaks and the method returns
\* False, so run_main_system goes round its loop and displays the main menu
StatisticsBack ==
    /\ At("statistics")
    /\ \E choice \in Chosen(<<"6">>) : Prompt("main", <<choice>>, Said("nothing", 0))
    /\ Untouched

\* choice '7', lines 239-241: returns True, on which run_main_system breaks
StatisticsExit ==
    /\ At("statistics")
    /\ \E choice \in Chosen(<<"7">>) : Ended(<<choice>>, Said("thanks", 0))
    /\ Untouched

\* lines 243-244
StatisticsInvalid ==
    /\ At("statistics")
    /\ \E choice \in ChoicesTyped :
           /\ strip(choice.text) \notin
                  {<<"1">>, <<"2">>, <<"3">>, <<"4">>, <<"5">>, <<"6">>, <<"7">>}
           /\ Prompt("statistics", <<choice>>, Said("invalid_choice", 0))
    /\ Untouched

(* run_search_menu, final_system.py lines 143-185, and run_distance_menu,
   lines 187-260 *)

\* lines 181-185 and 256-260, in the loop m: Ctrl+C breaks to the main menu;
\* any other exception is printed and the loop goes on
SubmenuExcept(m, key, keys) ==
    \/ /\ key.raises = "KeyboardInterrupt"
       /\ Prompt("main", keys, Said("returning", 0))
    \/ /\ key.raises = "EOFError"
       /\ Prompt(m, keys, Said("error", 0))

\* the prompt "Choose option" of either menu raises
SubmenuRaised ==
    /\ \E m \in {"search", "distance"}, choice \in Raising :
           At(m) /\ SubmenuExcept(m, choice, <<choice>>)
    /\ Untouched

\* "Back to Main Menu": choice '5' at line 176, choice '4' at line 250
SubmenuBack ==
    /\ \/ At("search") /\ \E choice \in Chosen(<<"5">>) :
                              Prompt("main", <<choice>>, Said("nothing", 0))
       \/ At("distance") /\ \E choice \in Chosen(<<"4">>) :
                                Prompt("main", <<choice>>, Said("nothing", 0))
    /\ Untouched

\* lines 178-179 and 253-254
SubmenuInvalid ==
    /\ \E choice \in ChoicesTyped :
           \/ /\ At("search")
              /\ strip(choice.text) \notin {<<"1">>, <<"2">>, <<"3">>, <<"4">>, <<"5">>}
              /\ Prompt("search", <<choice>>, Said("invalid_choice", 0))
           \/ /\ At("distance")
              /\ strip(choice.text) \notin {<<"1">>, <<"2">>, <<"3">>, <<"4">>}
              /\ Prompt("distance", <<choice>>, Said("invalid_choice", 0))
    /\ Untouched

\* choice '1' of the search menu, lines 159-160: run_search prints its banner
\* and prompts; choice '4', lines 170-175: the countries are listed
SearchQuickOrCountries ==
    /\ At("search")
    /\ \/ \E choice \in Chosen(<<"1">>) :
              Prompt("run_search", <<choice>>, Said("nothing", 0))
       \/ \E choice \in Chosen(<<"4">>) :
              Prompt("search", <<choice>>, Said("countries", Len(country_index)))
    /\ Untouched

\* choice '2' of the search menu, lines 161-164
SearchCountry ==
    /\ At("search")
    /\ \E choice \in Chosen(<<"2">>), country \in CountriesTyped \cup Raising :
           IF country.raises # "none"
           THEN SubmenuExcept("search", country, <<choice, country>>) /\ Untouched
           ELSE IF strip(country.text) = <<>>
           THEN Prompt("search", <<choice, country>>, Said("nothing", 0)) /\ Untouched
           ELSE CountryShown("search", "country_airports", choice, country,
                             get_country_airports(strip(country.text)))

\* choice '3' of the search menu, lines 165-169: AirportSearch has no method
\* search_airports, so the call raises AttributeError, which line 184 catches
SearchCity ==
    /\ At("search")
    /\ \E choice \in Chosen(<<"3">>), city \in CountriesTyped \cup Raising :
           IF city.raises # "none" THEN SubmenuExcept("search", city, <<choice, city>>)
           ELSE IF strip(city.text) = <<>>
           THEN Prompt("search", <<choice, city>>, Said("nothing", 0))
           ELSE Prompt("search", <<choice, city>>, Said("error", 0))
    /\ Untouched

(* run_search, smart_search.py lines 246-276: it prompts without a menu *)

\* lines 272-276: Ctrl+C leaves the loop; any other exception is printed and
\* run_search prompts again
RunSearchRaised ==
    /\ At("run_search")
    /\ \E q \in Raising :
           \/ /\ q.raises = "KeyboardInterrupt"
              /\ Prompt("search", <<q>>, Said("goodbye", 0))
           \/ /\ q.raises = "EOFError"
              /\ menu' = "run_search" /\ shown' = shown
              /\ typed' = <<q>> /\ said' = Said("error", 0)
    /\ Untouched

\* lines 262-267: quit, exit or q leave the loop; an empty query prompts again
RunSearchQuitOrEmpty ==
    /\ At("run_search")
    /\ \E q \in {Text(<<>>), Text(<<"Q", "u", "i", "t">>), Text(<<"q">>)} :
           \/ /\ lower(strip(q.text)) \in
                     {<<"q", "u", "i", "t">>, <<"e", "x", "i", "t">>, <<"q">>}
              /\ Prompt("search", <<q>>, Said("goodbye", 0))
           \/ /\ strip(q.text) = <<>>
              /\ menu' = "run_search" /\ shown' = shown
              /\ typed' = <<q>> /\ said' = Said("nothing", 0)
    /\ Untouched

\* display_results, lines 163-198, of n results: with several it asks which to
\* show; Ctrl+C there is passed over, the end of input goes to line 275
Displayed(n, detail) ==
    IF n = 0 THEN Said("not_found", 0)
    ELSE IF n = 1 THEN Said("airport", 1)
    ELSE IF detail.raises = "EOFError" THEN Said("error", n)
    ELSE IF detail.raises = "KeyboardInterrupt" THEN Said("results", n)
    ELSE IF lower(detail.text) = <<"a", "l", "l">> THEN Said("all_details", n)
    ELSE IF isdigit(detail.text) /\ 1 <= int(detail.text) /\ int(detail.text) <= n
    THEN Said("airport", int(detail.text))
    ELSE Said("results", n)

\* lines 269-270: found is what smart_search returned; the pass ends at the
\* prompt of run_search again
Searched(q, detail, found) ==
    /\ menu' = "run_search"
    /\ shown' = shown
    /\ typed' = IF Len(found.res) > 1 THEN <<q, detail>> ELSE <<q>>
    /\ said' = Displayed(Len(found.res), detail)
    /\ op' = "smart_search"
    /\ query' = strip(q.text)
    /\ results' = found.res
    /\ via' = found.via
    /\ calls' = found.calls
    /\ printed' = found.printed
    /\ UNCHANGED <<store, dataset, files, pc, geo, exported>>
RunSearchQuery ==
    /\ At("run_search")
    /\ \E q \in {Text(<<"D", "E", "L">>), Text(<<"N", "i", "g", "e", "r">>),
                  Text(<<"X", "Y", "Z">>), Text(<<" ", "q", "u", "i", "t", "e">>)},
          detail \in {Text(<<>>), Text(<<"A", "l", "l">>), Text(<<"2">>), Text(<<"9">>)}
                     \cup Raising :
           /\ strip(q.text) # <<>>
           /\ lower(strip(q.text)) \notin
                  {<<"q", "u", "i", "t">>, <<"e", "x", "i", "t">>, <<"q">>}
           /\ Searched(q, detail, smart_search(strip(q.text)))

(* run_distance_menu, final_system.py lines 187-260 *)

\* calculate_distance(airport1, airport2): the distance between the records the
\* two codes resolve to; nothing when either resolves to none
calculate_distance(airport1, airport2) ==
    IF search_by_code(airport1).res = <<>> \/ search_by_code(airport2).res = <<>>
    THEN [res |-> <<>>, via |-> "none"]
    ELSE [res |-> <<[airport |-> search_by_code(airport2).res[1],
                     distance_m |-> distance_m(search_by_code(airport1).res[1],
                                               search_by_code(airport2).res[1])]>>,
          via |-> "distance"]

\* choice '1', lines 202-209
DistanceBetween ==
    /\ At("distance")
    /\ \E choice \in Chosen(<<"1">>),
          first \in {Text(c) : c \in CodesTyped} \cup Raising,
          second \in {Text(c) : c \in CodesTyped} \cup Raising :
           IF first.raises # "none"
           THEN SubmenuExcept("distance", first, <<choice, first>>) /\ Untouched
           ELSE IF second.raises # "none"
           THEN SubmenuExcept("distance", second, <<choice, first, second>>) /\ Untouched
           ELSE IF strip(first.text) = <<>> \/ strip(second.text) = <<>>
           THEN Prompt("distance", <<choice, first, second>>, Said("nothing", 0))
                /\ Untouched
           ELSE /\ Prompt("distance", <<choice, first, second>>,
                          Said("distance_result", 0))
                /\ Answered("calculate_distance", strip(first.text),
                            calculate_distance(strip(first.text), strip(second.text)))
                /\ UNCHANGED exported

\* choice '2', lines 211-224: found is what find_nearby_airports returned
NearbyShown(keys, code, radius, found) ==
    /\ Prompt("distance", keys,
              Said(IF found.ref_airport # <<>> THEN "nearby_airports" ELSE "nothing",
                   Len(found.nearby_airports)))
    /\ op' = "find_nearby_airports"
    /\ query' = code
    /\ radius_km' = radius
    /\ ref_airport' = found.ref_airport
    /\ results' = found.nearby_airports
    /\ via' = IF found.ref_airport # <<>> THEN "nearby" ELSE "none"
    /\ UNCHANGED <<store, dataset, files, pc, calls, printed, exported>>
DistanceNearby ==
    /\ At("distance")
    /\ \E choice \in Chosen(<<"2">>),
          code \in {Text(c) : c \in CodesTyped} \cup Raising,
          radius \in {Text(r) : r \in RadiiTyped} \cup Raising :
           IF code.raises # "none"
           THEN SubmenuExcept("distance", code, <<choice, code>>) /\ Untouched
           ELSE IF strip(code.text) = <<>>
           THEN Prompt("distance", <<choice, code>>, Said("nothing", 0)) /\ Untouched
           ELSE IF radius.raises # "none"
           THEN SubmenuExcept("distance", radius, <<choice, code, radius>>) /\ Untouched
           ELSE NearbyShown(<<choice, code, radius>>, strip(code.text),
                            radius_of(strip(radius.text)),
                            find_nearby_airports(strip(code.text),
                                                 radius_of(strip(radius.text))))

\* choice '3', lines 226-248: AirportSearch has no method search_airports, so
\* the call raises AttributeError, which line 259 catches
DistanceLocation ==
    /\ At("distance")
    /\ \E choice \in Chosen(<<"3">>),
          code \in {Text(c) : c \in CodesTyped} \cup Raising :
           IF code.raises # "none" THEN SubmenuExcept("distance", code, <<choice, code>>)
           ELSE IF strip(code.text) = <<>>
           THEN Prompt("distance", <<choice, code>>, Said("nothing", 0))
           ELSE Prompt("distance", <<choice, code>>, Said("error", 0))
    /\ Untouched

(* run_main_system, final_system.py lines 267-311 *)

\* lines 304-311: Ctrl+C breaks; any other exception is printed and the loop
\* goes on
MainRaised ==
    /\ At("main")
    /\ \E choice \in Raising :
           \/ /\ choice.raises = "KeyboardInterrupt"
              /\ Ended(<<choice>>, Said("interrupted", 0))
           \/ /\ choice.raises = "EOFError"
              /\ Prompt("main", <<choice>>, Said("unexpected_error", 0))
    /\ Untouched

\* choices '1', '2' and '3', lines 277-286: the menu chosen starts and prompts
MainOpens ==
    /\ At("main")
    /\ \/ \E choice \in Chosen(<<"1">>) : Prompt("search", <<choice>>, Said("nothing", 0))
       \/ \E choice \in Chosen(<<"2">>) : Prompt("distance", <<choice>>, Said("nothing", 0))
       \/ \E choice \in Chosen(<<"3">>) : Prompt("statistics", <<choice>>, Said("nothing", 0))
    /\ Untouched

\* choices '4' and '5', lines 288-292
MainDisplays ==
    /\ At("main")
    /\ \/ \E choice \in Chosen(<<"4">>) :
              Prompt("main", <<choice>>, Said("system_info", Len(airports)))
       \/ \E choice \in Chosen(<<"5">>) : Prompt("main", <<choice>>, Said("help", 0))
    /\ Untouched

\* choice '6', lines 294-299
MainExit ==
    /\ At("main")
    /\ \E choice \in Chosen(<<"6">>) : Ended(<<choice>>, Said("thanks", 0))
    /\ Untouched

\* lines 301-302
MainInvalid ==
    /\ At("main")
    /\ \E choice \in ChoicesTyped :
           /\ strip(choice.text) \notin
                  {<<"1">>, <<"2">>, <<"3">>, <<"4">>, <<"5">>, <<"6">>}
           /\ Prompt("main", <<choice>>, Said("invalid_choice", 0))
    /\ Untouched

\* CompleteAirportSystem() and run_main_system up to its first prompt, the
\* welcome screen and the main menu displayed, on an empty database or on the
\* two airports of Delhi and one of another country
MenuInit ==
    \E raw \in {<<>>} \cup {<<a, b, c>> : a \in {r \in Rows : r.id = <<"1">>},
                                         b \in {r \in Rows : r.id = <<"2">>},
                                         c \in {r \in Rows : r.city # <<"D", "e", "l", "h", "i">>}} :
        /\ EngineStarted(raw)
        /\ menu = "main"
        /\ shown = <<"welcome", "main">>
        /\ typed = <<>>
        /\ said = Said("nothing", 0)
        /\ exported = <<>>

MenuNext ==
    \/ MainRaised
    \/ MainOpens
    \/ MainDisplays
    \/ MainExit
    \/ MainInvalid
    \/ SubmenuRaised
    \/ SubmenuBack
    \/ SubmenuInvalid
    \/ SearchQuickOrCountries
    \/ SearchCountry
    \/ SearchCity
    \/ RunSearchRaised
    \/ RunSearchQuitOrEmpty
    \/ RunSearchQuery
    \/ DistanceBetween
    \/ DistanceNearby
    \/ DistanceLocation
    \/ StatisticsRaised
    \/ StatisticsOverview
    \/ StatisticsTop
    \/ StatisticsCountry
    \/ StatisticsExport
    \/ StatisticsBack
    \/ StatisticsExit
    \/ StatisticsInvalid

MenuSpec == MenuInit /\ [][MenuNext]_vars


----------------------------------------------------------------------------
(* Vocabulary of the properties, stated on the store and on str alone *)

Positions(seq) == 1..Len(seq)
InSeq(x, seq) == \E i \in Positions(seq) : seq[i] = x

\* a primary code of exactly 3 alphabetic characters
ValidPrimaryCode(c) == Len(c) = 3 /\ \A i \in 1..Len(c) : IsAlphaChar(c[i])
AllUpperCase(c) == \A i \in 1..Len(c) : IsUpperChar(c[i])

\* key contains q, ignoring case
ContainsIgnoringCase(key, q) == Contains(lower(key), lower(q))

\* the buckets of the city keys that contain q ignoring case, in index order
CityEntriesContaining(q) ==
    SelectSeq(city_index, LAMBDA e : ContainsIgnoringCase(e.k, q))
BucketsOf(entries) == Concat([i \in Positions(entries) |-> entries[i].v])

\* the records of the store whose display name contains q ignoring case, in store order
NamedLike(q) == SelectSeq(airports, LAMBDA r : ContainsIgnoringCase(r.name, q))

\* q is answered by an exact or substring lookup of the chain
CodeIndexHit(q) ==
    /\ Len(q) \in {3, 4}
    /\ \A i \in 1..Len(q) : IsAlphaChar(q[i])
    /\ \/ Len(q) = 3 /\ DictHas(iata_index, upper(q))
       \/ Len(q) = 4 /\ DictHas(icao_index, upper(q))
ExactLookupHit(q) ==
    \/ CodeIndexHit(q)
    \/ CityEntriesContaining(q) # <<>>
    \/ DictHas(country_index, q)
    \/ NamedLike(q) # <<>>

Chain == <<"code", "city", "country", "name">>
StrategyNames == [i \in Positions(calls) |-> calls[i].s]
StrategyResult(s, q) ==
    IF s = "code" THEN search_by_code(q).res
    ELSE IF s = "city" THEN search_by_city(q).res
    ELSE IF s = "country" THEN search_by_country(q).res
    ELSE search_by_name(q).res

----------------------------------------------------------------------------
(* The claims *)

\* C1, as stated: for every record r of the store whose primary code is exactly
\* 3 alphabetic characters, smart_search(r.iata) returns exactly <<r>>.
C1_Original ==
    Done("smart_search") =>
        \A i \in Positions(airports) :
            (airports[i].iata = query /\ ValidPrimaryCode(airports[i].iata))
                => results = <<airports[i]>>

\* C1, amended: for every record r of the store whose primary code is 3
\* upper-case letters and which is the last record of the store carrying that
\* code, smart_search(r.iata) returns exactly <<r>>.
C1_LastRecordOfUpperCaseCode ==
    Done("smart_search") =>
        \A i \in Positions(airports) :
            (/\ airports[i].iata = query
             /\ ValidPrimaryCode(airports[i].iata)
             /\ AllUpperCase(airports[i].iata)
             /\ \A j \in Positions(airports) :
                    j > i => airports[j].iata # airports[i].iata)
                => results = <<airports[i]>>

C1_Witness ==
    /\ Done("smart_search")
    /\ Len(airports) = 2
    /\ airports[1].iata = airports[2].iata
    /\ airports[1] # airports[2]
    /\ query = airports[2].iata
    /\ results = <<airports[2]>>

\* C2: smart_search runs code, city, country, name lookup in that order, returns
\* the result of the first strategy whose result is non-empty, runs no strategy
\* after it, and returns empty only when every strategy it tried returned empty.
C2_FirstNonEmptyInFixedOrder ==
    Done("smart_search") =>
        /\ \E from \in {1, 2} : StrategyNames = SubSeq(Chain, from, from + Len(calls) - 1)
        /\ \A i \in Positions(calls) : calls[i].res = StrategyResult(calls[i].s, strip(query))
        /\ \A i \in Positions(calls) : i < Len(calls) => calls[i].res = <<>>
        /\ calls # <<>> => results = calls[Len(calls)].res
        /\ calls = <<>> => results = <<>>
        /\ (results = <<>> /\ calls # <<>>) => calls[Len(calls)].s = "name"

C2_Witness ==
    /\ Done("smart_search")
    /\ Len(calls) = 2
    /\ calls[1].s = "code"
    /\ calls[1].res = <<>>
    /\ calls[2].s = "city"
    /\ results = calls[2].res
    /\ results # <<>>

\* C3: smart_search invokes the code lookup iff the trimmed query has length 3
\* or 4 and is all letters; for every other non-empty query the first strategy
\* invoked is the city lookup.
C3_CodeLookupGuard ==
    (Done("smart_search") /\ strip(query) # <<>>) =>
        LET q == strip(query)
            looksLikeCode == Len(q) \in {3, 4} /\ \A i \in 1..Len(q) : IsAlphaChar(q[i])
        IN  /\ calls # <<>>
            /\ looksLikeCode <=> (\E i \in Positions(calls) : calls[i].s = "code")
            /\ looksLikeCode => calls[1].s = "code"
            /\ ~looksLikeCode => calls[1].s = "city"

C3_Witness ==
    /\ Done("smart_search")
    /\ Len(strip(query)) = 3
    /\ ~isalpha(strip(query))
    /\ calls # <<>>
    /\ calls[1].s = "city"

\* C4: for a query that is empty, or empty after trimming, smart_search returns
\* an empty result and invokes no strategy and prints no suggestion.
C4_EmptyQueryShortCircuits ==
    (Done("smart_search") /\ strip(query) = <<>>) =>
        /\ results = <<>>
        /\ calls = <<>>
        /\ printed = <<>>
        /\ via = "none"

C4_Witness ==
    /\ Done("smart_search")
    /\ query = <<" ", " ">>
    /\ airports # <<>>
    /\ results = <<>>

\* C5: search_by_code upper-cases and trims the query, asks the primary-code
\* index only for a normalized length of 3 and the secondary-code index only for
\* 4, and gives the same result for queries that differ only in letter case or
\* surrounding whitespace.
C5_CodeLookupByLength ==
    Done("search_by_code") =>
        LET code == strip(upper(query))
        IN  /\ via = "iata" =>
                  Len(code) = 3 /\ DictHas(iata_index, code)
                  /\ results = <<DictGet(iata_index, code)>>
            /\ via = "icao" =>
                  Len(code) = 4 /\ DictHas(icao_index, code)
                  /\ results = <<DictGet(icao_index, code)>>
            /\ (Len(code) = 3 /\ DictHas(iata_index, code)) => via = "iata"
            /\ (Len(code) = 4 /\ DictHas(icao_index, code)) => via = "icao"
            /\ via \notin {"iata", "icao"} => results = <<>>
            /\ \A other \in Queries :
                   strip(upper(other)) = code => search_by_code(other).res = results

C5_Witness ==
    /\ Done("search_by_code")
    /\ query = <<" ", "d", "e", "l", " ">>
    /\ via = "iata"
    /\ results # <<>>
    /\ \E e \in {icao_index[i] : i \in Positions(icao_index)} : Len(e.k) = 4

\* C6, as stated: when a code lookup misses, the suggestions are never part of
\* the returned sequence, and what the caller receives for a miss with at least
\* one suggestion differs from what it receives for a miss with no suggestion.
C6_Original ==
    (Done("search_by_code") /\ via = "none") =>
        /\ \A i \in Positions(results) :
               ~InSeq(results[i].iata, printed) /\ ~InSeq(results[i].icao, printed)
        /\ printed # <<>> =>
               \A other \in Queries :
                   LET r == search_by_code(other)
                   IN  (r.via = "none" /\ r.printed = <<>>) => r.res # results

\* C7, as stated: search_by_city(q) returns the union of the buckets of every
\* composite key that contains q ignoring case: every record of every such bucket,
\* and no record of a bucket whose key does not contain q.
C7_Original ==
    Done("search_by_city") =>
        \A i \in Positions(city_index) :
            \A j \in Positions(city_index[i].v) :
                InSeq(city_index[i].v[j], results)
                    <=> ContainsIgnoringCase(city_index[i].k, query)

\* C7, amended: with q trimmed of surrounding whitespace, when some composite key
\* contains q ignoring case the result is the buckets of all those keys, whole
\* and in index order, and nothing else; when no key contains q the result is
\* the buckets of the closest fuzzy matches among the keys.
C7_SubstringBucketsElseFuzzy ==
    Done("search_by_city") =>
        LET q == strip(query)
            exact == CityEntriesContaining(q)
        IN  IF exact # <<>>
            THEN results = BucketsOf(exact)
            ELSE /\ results = Buckets(city_index,
                                      get_close_matches(q, DictKeys(city_index), CityMatches))
                 /\ \A i \in Positions(results) :
                        AtCutoff(ratio(city_key(results[i]), q))

C7_Witness ==
    /\ Done("search_by_city")
    /\ Len(city_index) = 2
    /\ results = city_index[1].v \o city_index[2].v
    /\ \A i \in Positions(city_index) :
           /\ ContainsIgnoringCase(city_index[i].k, query)
           /\ ~Contains(city_index[i].k, query)

\* C8, as stated: search_by_country(q) returns the bucket of q when q is a key of
\* the country index, otherwise the bucket of the single best fuzzy match, or
\* nothing; the returned records always belong to one country.
C8_Original ==
    Done("search_by_country") =>
        LET top == get_close_matches(strip(query), DictKeys(country_index),
                                     CountryListingMatches)
        IN  /\ DictHas(country_index, query) => results = DictGet(country_index, query)
            /\ \A i, j \in Positions(results) : results[i].country = results[j].country
            /\ (~DictHas(country_index, strip(query)) /\ top # <<>>) =>
                   results = DictGet(country_index, top[1])
            /\ (~DictHas(country_index, strip(query)) /\ top = <<>>) => results = <<>>

\* C9, as stated: search_by_name(q) returns exactly the records whose display
\* name contains q ignoring case, each once, in store order.
C9_Original ==
    Done("search_by_name") => results = NamedLike(query)

\* C9, amended: search_by_name(q) returns exactly the records whose display name
\* contains q trimmed of surrounding whitespace, ignoring case, each once, in
\* store order, however many they are.
C9_NameSubstringOfTrimmedQuery ==
    Done("search_by_name") => results = NamedLike(strip(query))

C9_Witness ==
    /\ Done("search_by_name")
    /\ Len(airports) = 2
    /\ results = <<airports[2]>>
    /\ query # lower(query)

\* C10, as stated: if an exact or substring lookup of the chain (code index hit,
\* city-key substring, exact country key, name substring) finds something for
\* the query, the result of smart_search holds no record obtained by fuzzy
\* matching.
C10_Original ==
    (Done("smart_search") /\ strip(query) # <<>> /\ ExactLookupHit(strip(query)))
        => via \notin {"city_fuzzy", "country_fuzzy"}

\* C10, amended: inside each strategy the fuzzy match is a fallback of that
\* strategy's own exact lookup: a result obtained by fuzzy city matching means no
\* city key contains the query, and a result obtained by fuzzy country matching
\* means the query is no country key (and no city key contains it).
C10_FuzzyOnlyAfterOwnExactMiss ==
    Done("smart_search") =>
        LET q == strip(query)
        IN  /\ via = "city_fuzzy" => CityEntriesContaining(q) = <<>>
            /\ via = "country_fuzzy" =>
                   ~DictHas(country_index, q) /\ CityEntriesContaining(q) = <<>>
            /\ via \in {"city_fuzzy", "country_fuzzy"} => ~CodeIndexHit(q)

C10_Witness ==
    /\ Done("smart_search")
    /\ via = "country_fuzzy"
    /\ NamedLike(strip(query)) # <<>>
    /\ \E i \in Positions(results) : ~ContainsIgnoringCase(results[i].name, query)

\* the similarity score of a candidate against the word, and equality of scores
Score(x, word) == ratio(x, word)
SameScore(r, s) == ~RatioLess(r, s) /\ ~RatioLess(s, r)

\* m is a ranking of at most n of the candidates, all at or above the threshold,
\* by descending score; ascending tells which way equal scores are ordered
Ranked(m, word, cands, n, ascending) ==
    /\ Len(m) <= n
    /\ \A i \in Positions(m) : InSeq(m[i], cands) /\ AtCutoff(Score(m[i], word))
    /\ \A i, j \in Positions(m) :
           i < j => /\ ~RatioLess(Score(m[i], word), Score(m[j], word))
                    /\ SameScore(Score(m[i], word), Score(m[j], word)) =>
                           IF ascending THEN ~StrLess(m[j], m[i]) ELSE ~StrLess(m[i], m[j])

\* the sequences of at most n keys of an index
KeySeqs(index, n) ==
    UNION {[1..k -> {index[i].k : i \in Positions(index)}] :
               k \in 0..(IF n < Len(index) THEN n ELSE Len(index))}

\* the three fallbacks hand out a ranking: the code fallback prints it, the city
\* and country fallbacks return the buckets of its keys, one after the other
FallbacksRanked(ascending) ==
    /\ (Done("search_by_code") /\ via = "none") =>
           Ranked(printed, strip(upper(query)),
                  DictKeys(iata_index) \o DictKeys(icao_index), CodeSuggestions, ascending)
    /\ (Done("search_by_city") /\ via = "city_fuzzy") =>
           \E m \in KeySeqs(city_index, CityMatches) :
               /\ Ranked(m, strip(query), DictKeys(city_index), CityMatches, ascending)
               /\ results = Buckets(city_index, m)
    /\ (Done("search_by_country") /\ via = "country_fuzzy") =>
           \E m \in KeySeqs(country_index, CountryMatches) :
               /\ Ranked(m, strip(query), DictKeys(country_index), CountryMatches, ascending)
               /\ results = Buckets(country_index, m)

\* C11, as stated: the close matches of the code, city and country fallbacks are
\* candidates at or above the threshold, at most maxResults of them, in
\* descending order of score, candidates of equal score in ascending lexical order.
C11_Original == FallbacksRanked(TRUE)

\* C11, amended: the close matches of the code, city and country fallbacks are
\* candidates at or above the threshold, at most maxResults of them, in
\* descending order of score, candidates of equal score in descending lexical
\* order (the larger string first).
C11_EqualScoresLargerStringFirst == FallbacksRanked(FALSE)

C11_Witness ==
    /\ Done("search_by_code")
    /\ via = "none"
    /\ Len(printed) = 2
    /\ printed[1] # printed[2]
    /\ SameScore(Score(printed[1], strip(upper(query))), Score(printed[2], strip(upper(query))))
    /\ StrLess(printed[2], printed[1])

\* the engine has loaded what the builder made of the dataset
Loaded == pc = "idle" /\ op = "load_data"

\* the records the rows of the dataset describe, a row of too few fields or of
\* a coordinate that is no number describing none
Usable(row) == row.n >= 14 /\ ~Raises(row)
RecordsOfDataset == {airport_of(dataset.rows[i]) :
                        i \in {j \in Positions(dataset.rows) : Usable(dataset.rows[j])}}
IndexValues(index) == {index[i].v : i \in Positions(index)}

\* C12: after load and index build, a record whose primary code is not exactly
\* 3 alphabetic characters is in the store and is no value of the primary-code
\* index, and every key of the primary-code index is 3 alphabetic characters.
C12_Original ==
    Loaded =>
        /\ \A r \in RecordsOfDataset :
               ~ValidPrimaryCode(r.iata) =>
                   InSeq(r, airports) /\ r \notin IndexValues(iata_index)
        /\ \A i \in Positions(iata_index) : ValidPrimaryCode(iata_index[i].k)

\* the last record of the store that carries the code in the field
LastWith(field, code) ==
    airports[CHOOSE i \in Positions(airports) :
                 /\ airports[i][field] = code
                 /\ \A j \in Positions(airports) : j > i => airports[j][field] # code]
InBucket(r, index, key) == DictHas(index, key) /\ InSeq(r, DictGet(index, key))

\* C13: when several records of the store share a primary code (or a secondary
\* code), the build does not fail, the index maps the code to the last of them
\* in store order, and the earlier ones stay in the store and in their city and
\* country buckets.
C13_LastWriterWins ==
    /\ (/\ op = "main"
        /\ dataset.present
        /\ \A i \in Positions(dataset.rows) : ~Raises(dataset.rows[i]))
           => pc = "saved" /\ files.present
    /\ Loaded =>
           \A i \in Positions(airports) :
               /\ airports[i].iata # <<>> =>
                      /\ DictHas(iata_index, airports[i].iata)
                      /\ DictGet(iata_index, airports[i].iata) = LastWith("iata", airports[i].iata)
               /\ airports[i].icao # <<>> =>
                      /\ DictHas(icao_index, airports[i].icao)
                      /\ DictGet(icao_index, airports[i].icao) = LastWith("icao", airports[i].icao)
               /\ InBucket(airports[i], city_index, city_key(airports[i]))
               /\ InBucket(airports[i], country_index, airports[i].country)

C13_Witness ==
    /\ Loaded
    /\ Len(airports) = 2
    /\ airports[1].icao = airports[2].icao
    /\ airports[1].iata # airports[2].iata
    /\ DictGet(icao_index, airports[1].icao) = airports[2]
    /\ InBucket(airports[1], city_index, city_key(airports[1]))
    /\ InBucket(airports[1], country_index, airports[1].country)

\* the engine is serving queries
Serving == pc \in {"idle", "called"}

\* the 'city, country' value of a record, and the buckets of an index that hold it
OwnCityKey(r) == r.city \o <<",", " ">> \o r.country
BucketsHolding(r, index) == {i \in Positions(index) : InSeq(r, index[i].v)}

\* C14: while queries are served, each record of a city or country bucket is a
\* record of the store with the same field values, its bucket's key is its own
\* 'city, country' (respectively country) value, and every record of the store
\* is in exactly one city bucket and exactly one country bucket.
C14_BucketsMirrorStore ==
    Serving =>
        /\ \A i \in Positions(city_index) : \A j \in Positions(city_index[i].v) :
               /\ InSeq(city_index[i].v[j], airports)
               /\ city_index[i].k = OwnCityKey(city_index[i].v[j])
        /\ \A i \in Positions(country_index) : \A j \in Positions(country_index[i].v) :
               /\ InSeq(country_index[i].v[j], airports)
               /\ country_index[i].k = country_index[i].v[j].country
        /\ \A i \in Positions(airports) :
               /\ Cardinality(BucketsHolding(airports[i], city_index)) = 1
               /\ Cardinality(BucketsHolding(airports[i], country_index)) = 1

C14_Witness ==
    /\ pc = "called"
    /\ Len(airports) = 2
    /\ Len(city_index) = 2
    /\ Len(country_index) = 1
    /\ country_index[1].v = airports
    /\ city_index[2].v = <<airports[2]>>

\* extended_data.main has run on the dataset
Built == op = "main" /\ pc \in {"saved", "failed"}

\* the rows without those whose coordinates are no numbers
Parsable(rows) == SelectSeq(rows, LAMBDA row : ~Raises(row))

\* C15: loading a dataset in which some rows are unusable (too few fields, or a
\* required field that cannot be parsed, such as a latitude that is no number)
\* skips those rows and loads the remaining ones; a bad row never makes the
\* load fail or return no store.
C15_Original ==
    (Built /\ dataset.present) =>
        /\ pc = "saved"
        /\ files.present
        /\ files.airports = Processed(Parsable(dataset.rows))

\* the dataset is absent, or no row of it can be parsed into a record
MissingSource == ~dataset.present
Malformed == dataset.present /\ \A i \in Positions(dataset.rows) : ~Usable(dataset.rows[i])

\* C16: when the dataset is absent, and when no record at all can be parsed
\* from it, load ends in an error outcome: no store and no index set, empty or
\* not, is built, saved or used to serve queries.
C16_Original ==
    (MissingSource \/ Malformed) =>
        /\ pc # "saved"
        /\ ~files.present
        /\ ~Serving

\* C17: after load, no query operation (smart_search, search_by_code,
\* search_by_city, search_by_country, search_by_name, get_country_airports)
\* changes the store, any of the four indexes, the order of any bucket or any
\* field of any record.
C17_QueriesChangeNothing == [][store' = store]_vars

C17_Witness ==
    /\ Done("get_country_airports")
    /\ DictHas(country_index, query)
    /\ results # <<>>
    /\ results # DictGet(country_index, query)
    /\ store = <<load_data(files).airports, load_data(files).iata_index,
                 load_data(files).icao_index, load_data(files).city_index,
                 load_data(files).country_index>>

\* the records of an index in index order, and the ones the result came from
ValuesOf(index) == [i \in Positions(index) |-> index[i].v]
SourceOfResults ==
    IF via = "iata" THEN ValuesOf(iata_index)
    ELSE IF via = "icao" THEN ValuesOf(icao_index)
    ELSE IF via \in {"city_substring", "city_fuzzy"} THEN BucketsOf(city_index)
    ELSE IF via \in {"country_exact", "country_fuzzy"} THEN BucketsOf(country_index)
    ELSE airports

\* res lists records of flat in the order flat has them
InIndexOrder(res, flat) == res = SelectSeq(flat, LAMBDA r : InSeq(r, res))

\* res is in non-decreasing order of city name, the records of one city in the
\* order flat has them
NonDecreasingCity(res) ==
    \A i, j \in Positions(res) : i < j => ~StrLess(res[j].city, res[i].city)
SameCityInOrder(res, flat) ==
    \A i \in Positions(res) :
        SelectSeq(res, LAMBDA r : r.city = res[i].city)
            = SelectSeq(flat, LAMBDA r : r.city = res[i].city /\ InSeq(r, res))

\* res is a bucket of the country index sorted by city name, the records of one
\* city in bucket order
CountryListing(res) ==
    \E i \in Positions(country_index) :
        /\ Len(res) = Len(country_index[i].v)
        /\ NonDecreasingCity(res)
        /\ SameCityInOrder(res, country_index[i].v)

OtherOperations ==
    {"smart_search", "search_by_code", "search_by_country", "search_by_name"}

\* C19, as stated: the country listing and the result of the city lookup are in
\* non-decreasing order of city name, records of the same city in index order;
\* every other result set follows the order of the underlying index.
C19_Original ==
    /\ (Done("get_country_airports") /\ results # <<>>) => CountryListing(results)
    /\ Done("search_by_city") =>
           NonDecreasingCity(results) /\ SameCityInOrder(results, BucketsOf(city_index))
    /\ (pc = "idle" /\ op \in OtherOperations) => InIndexOrder(results, SourceOfResults)

\* C19, amended: the country listing (get_country_airports) is in non-decreasing
\* order of city name, records of the same city in index order.  Every other
\* result set, that of the city lookup included, follows the order of the
\* underlying index when it comes from a code, substring or exact lookup, and
\* lists the matched buckets one after the other, each in its index order, when
\* it comes from a fuzzy match.
C19_OnlyCountryListingSorted ==
    /\ (Done("get_country_airports") /\ results # <<>>) => CountryListing(results)
    /\ (pc = "idle" /\ op \in OtherOperations \cup {"search_by_city"}) =>
           /\ via \notin {"city_fuzzy", "country_fuzzy"} =>
                  InIndexOrder(results, SourceOfResults)
           /\ via = "city_fuzzy" =>
                  \E m \in KeySeqs(city_index, CityMatches) :
                      results = Buckets(city_index, m)
           /\ via = "country_fuzzy" =>
                  \E m \in KeySeqs(country_index, CountryMatches) :
                      results = Buckets(country_index, m)

C19_Witness ==
    /\ Done("search_by_city")
    /\ via = "city_substring"
    /\ Len(results) = 2
    /\ StrLess(results[2].city, results[1].city)
    /\ results = BucketsOf(city_index)

\* how many times x occurs in seq
Count(x, seq) == Cardinality({i \in Positions(seq) : seq[i] = x})
AirportsOf(found) == [i \in Positions(found) |-> found[i].airport]

\* C20: nearby(reference, radiusKm, pool) returns exactly the records of pool
\* other than the reference whose distance to the reference is at most
\* radiusKm (a record at exactly radiusKm included), each once, in ascending
\* order of distance, records at equal distance in ascending order of record
\* identifier.
C20_WithinRadiusNearestFirst ==
    (Done("find_nearby_airports") /\ ref_airport # <<>>) =>
        /\ \A i \in Positions(airports) :
               Count(airports[i], AirportsOf(results)) =
                   IF /\ airports[i] # ref_airport[1]
                      /\ distance_m(ref_airport[1], airports[i]) <= radius_km * 1000
                   THEN Count(airports[i], airports) ELSE 0
        /\ \A i \in Positions(results) :
               /\ InSeq(results[i].airport, airports)
               /\ results[i].distance_m = distance_m(ref_airport[1], results[i].airport)
        /\ \A i, j \in Positions(results) :
               i < j => \/ results[i].distance_m < results[j].distance_m
                        \/ /\ results[i].distance_m = results[j].distance_m
                           /\ results[i].airport.id <= results[j].airport.id

C20_Witness ==
    /\ Done("find_nearby_airports")
    /\ ref_airport # <<>>
    /\ Len(airports) = 3
    /\ Len(results) = 2
    /\ results[1].distance_m = results[2].distance_m
    /\ results[1].distance_m < radius_km * 1000
    /\ results[1].airport.id < results[2].airport.id
    /\ airports[1] = results[2].airport
    /\ airports[2] = results[1].airport

\* the nearby search of a resolved reference at radius 0 has returned
ZeroRadius == Done("find_nearby_airports") /\ ref_airport # <<>> /\ radius_km = 0
CoLocated(r) == r.id # ref_airport[1].id /\ Coordinates(r) = Coordinates(ref_airport[1])

\* C21 as stated: nearby(reference, radiusKm = 0, pool) returns an empty
\* sequence for every reference and every pool, also when the pool holds a
\* distinct record at the coordinates of the reference.
C21_Original == ZeroRadius => results = <<>>

\* C21: nearby(reference, radiusKm = 0, pool) returns exactly the records of
\* the pool distinct from the reference that lie at the coordinates of the
\* reference, each at distance 0, in ascending order of record identifier; it
\* is empty when the pool holds no such record.
C21_ZeroRadiusKeepsCoLocated ==
    ZeroRadius =>
        /\ \A i \in Positions(airports) :
               Count(airports[i], AirportsOf(results)) =
                   IF CoLocated(airports[i]) THEN Count(airports[i], airports) ELSE 0
        /\ \A i \in Positions(results) :
               InSeq(results[i].airport, airports) /\ results[i].distance_m = 0
        /\ \A i, j \in Positions(results) :
               i < j => results[i].airport.id <= results[j].airport.id
        /\ (\A i \in Positions(airports) : ~CoLocated(airports[i])) => results = <<>>

C21_Witness ==
    /\ ZeroRadius
    /\ Len(airports) = 3
    /\ Len(results) = 1
    /\ CoLocated(results[1].airport)
    /\ \E i \in Positions(airports) : Coordinates(airports[i]) # Coordinates(ref_airport[1])

\* smart_search has returned for a query that is a key of the country index
CountryKeyQueried == Done("smart_search") /\ DictHas(country_index, query)
CodeAnswered == calls # <<>> /\ calls[1].s = "code" /\ calls[1].res # <<>>
CityKeyHolds(r, q) == ContainsIgnoringCase(city_key(r), q)

\* C22 as stated: for every key c of the country index, smart_search(c)
\* returns exactly the records of the country bucket of c and no record of
\* another country, also when c is part of another country's name.
C22_Original == CountryKeyQueried => results = DictGet(country_index, query)

\* C22: for every key c of the country index that is not blank and that the
\* code lookup does not answer, the city lookup answers smart_search(c), and
\* the country lookup is not reached: the result holds the records whose
\* "city, country" key contains c ignoring case, which are every record of the
\* country bucket of c and the records of any other country whose key
\* contains c.
C22_CountryKeyAnsweredByCityLookup ==
    (CountryKeyQueried /\ strip(query) # <<>> /\ ~CodeAnswered) =>
        /\ via = "city_substring"
        /\ \A i \in Positions(calls) : calls[i].s # "country"
        /\ \A i \in Positions(DictGet(country_index, query)) :
               InSeq(DictGet(country_index, query)[i], results)
        /\ \A i \in Positions(results) :
               InSeq(results[i], airports) /\ CityKeyHolds(results[i], strip(query))
        /\ \A i \in Positions(airports) :
               CityKeyHolds(airports[i], strip(query)) => InSeq(airports[i], results)

C22_Witness ==
    /\ CountryKeyQueried
    /\ ~CodeAnswered
    /\ Len(results) = 2
    /\ results[1].country = query
    /\ results[2].country # query
    /\ Len(DictGet(country_index, query)) = 1

\* the pass that has just run: what was typed first, and whether Ctrl+C ended it
ChoiceMade(c) ==
    /\ typed' # <<>>
    /\ typed'[1].raises = "none"
    /\ strip(typed'[1].text) = c
Interrupted == typed' # <<>> /\ typed'[Len(typed')].raises = "KeyboardInterrupt"
MainLoopEnds == menu' = "ended" /\ shown' = shown
MainMenuAgain == menu' = "main" /\ shown' = Append(shown, "main")
StatisticsMenuAgain == menu' = "statistics" /\ shown' = Append(shown, "statistics")
StatisticsPass ==
    IF Interrupted \/ ChoiceMade(<<"7">>) THEN MainLoopEnds
    ELSE IF ChoiceMade(<<"6">>) THEN MainMenuAgain
    ELSE StatisticsMenuAgain

\* C23: from the statistics menu, option 7 and a keyboard interrupt end the
\* main loop of the system, and no menu is displayed after that; option 6
\* displays the main menu again; any other pass, an invalid choice and an
\* operation that raises included, displays the statistics menu again.
C23_StatisticsMenuLeaves ==
    [][/\ menu = "statistics" => StatisticsPass
       /\ menu # "ended"]_vars

C23_Witness ==
    /\ menu = "ended"
    /\ shown = <<"welcome", "main", "statistics", "statistics">>
    /\ Len(typed) = 3
    /\ typed[3].raises = "KeyboardInterrupt"
    /\ said.what = "goodbye"

====
